---- MODULE Spec2Model ----
(***************************************************************************)
(* Model of the UI page objects of qa-automation-framework:                *)
(*   ui_tests/pages/base_page.py, twitch_home_page.py,                     *)
(*   twitch_streamer_page.py.                                              *)
(*                                                                         *)
(* Strings are modelled as sequences of tokens.  A token is an atomic      *)
(* piece of text; the tokens "/", "?" and "#" are the single characters,   *)
(* and no other token contains one of them.  The literal "twitch.tv/" of   *)
(* the source is the token "twitch.tv" followed by the token "/"; no       *)
(* other token overlaps it.  No concatenation of two or more tokens        *)
(* spells a word of exclude_patterns.                                      *)
(***************************************************************************)
EXTENDS Integers, Sequences, FiniteSets, TLC

VARIABLES
    pc,         \* position of the running call
    op,         \* the page-object method that was called ("none" before a call)
    sel,        \* index of the selector of the chain being tried
    cards,      \* get_live_streamer_cards: its local variable cards
    ret,        \* get_live_streamer_cards: the list it returned
    outcome,    \* "none", "running", "returned" or "raised"
    log,        \* the driver interactions of the call, in the order issued
    url,        \* SpecClassify: the anchor whose href is classified
    href,       \* SpecClassify: element.get_attribute("href"), as tokens
    verdict,    \* the boolean a call returned: _is_channel_link,
                \* close_modal_if_present ("none" when it returned none)
    page,       \* the overlays the page shows, when the page is known
    calls,      \* how many calls were made on the page
    polls,      \* how often the wait in progress found its predicate false
    driver,     \* the driver fixture's local: "None" or "WebDriver"
    nav,        \* how many navigations the browser made
    got,        \* the value of nav when the element handles in use were found
    trace,      \* the milestones of the test run so far
    created_ids, \* ObjectsClient.created_ids
    store,      \* the ids of the objects the API holds
    files,      \* the screenshot files written: path and writing instance
    clock,      \* datetime.now(), in whole seconds
    inst,       \* workflow instance -> its page object and its progress
    request,    \* the options of the test run: browser, headless, mobile
    dom,        \* the document shown, when it is known: its boxes (elements
                \* with a scroll position), its anchors, the window's scroll
    initial_cards \* test_scroll_loads_content: its local initial_cards

\* the browser session of a test
session == <<driver, nav, got, request>>

\* the API client and the API behind it
apivars == <<created_ids, store>>

\* the workflow instances run side by side and what they share
parvars == <<files, clock, inst>>

vars == <<pc, op, sel, cards, ret, outcome, log, url, href, verdict, page,
          calls, polls, driver, nav, got, trace, created_ids, store, files,
          clock, inst, request, dom, initial_cards>>

\* the document of the page and what the scroll test remembers of it
scrollvars == <<dom, initial_cards>>

\* a document nothing is known of: the driver may answer anything
AnyDom == [known |-> FALSE, boxes |-> <<>>, anchors |-> <<>>, window |-> 0]

\* pytest_addoption: --browser chrome, and neither --headless nor --mobile
DefaultRequest == [browser |-> "chrome", headless |-> FALSE, mobile |-> FALSE]

\* the state of the parts a specification does not run
Unused ==
    /\ request = DefaultRequest
    /\ dom = AnyDom
    /\ initial_cards = 0
    /\ driver = "None"
    /\ nav = 0
    /\ got = 0
    /\ trace = <<>>
    /\ created_ids = <<>>
    /\ store = {}
    /\ files = <<>>
    /\ clock = 0
    /\ inst = <<>>

(***************************************************************************)
(* Bounds                                                                  *)
(***************************************************************************)
\* longest path (in segments) of an enumerated href
MaxSegs == 2
\* longest element list a selector yields (besides LongList)
MaxCards == 2

(***************************************************************************)
(* Text helpers (Python str methods on token sequences)                    *)
(***************************************************************************)
\* pat in s
Contains(s, pat) ==
    \E i \in 1..(Len(s) - Len(pat) + 1) : SubSeq(s, i, i + Len(pat) - 1) = pat

\* s.split(pat)[-1]: the text after the last occurrence of pat (s when absent)
AfterLast(s, pat) ==
    IF ~Contains(s, pat) THEN s
    ELSE LET occ == {i \in 1..(Len(s) - Len(pat) + 1) :
                        SubSeq(s, i, i + Len(pat) - 1) = pat}
             last == CHOOSE i \in occ : \A j \in occ : j <= i
         IN  SubSeq(s, last + Len(pat), Len(s))

RECURSIVE LStrip(_, _)
\* leading characters c removed
LStrip(s, c) ==
    IF s # <<>> /\ Head(s) = c THEN LStrip(Tail(s), c) ELSE s

RECURSIVE RStrip(_, _)
\* trailing characters c removed
RStrip(s, c) ==
    IF s # <<>> /\ s[Len(s)] = c THEN RStrip(SubSeq(s, 1, Len(s) - 1), c) ELSE s

\* s.strip(c)
Strip(s, c) == RStrip(LStrip(s, c), c)

RECURSIVE Split(_, _)
\* s.split(c): the pieces between the separators c (always at least one piece)
Split(s, c) ==
    IF \A i \in 1..Len(s) : s[i] # c THEN <<s>>
    ELSE LET k == CHOOSE i \in 1..Len(s) :
                      s[i] = c /\ \A j \in 1..(i - 1) : s[j] # c
         IN  <<SubSeq(s, 1, k - 1)>> \o Split(SubSeq(s, k + 1, Len(s)), c)

RECURSIVE StrLen(_)
\* len(s) in characters
StrLen(s) == IF s = <<>> THEN 0 ELSE Len(Head(s)) + StrLen(Tail(s))

(***************************************************************************)
(* TwitchHomePage._is_channel_link                                         *)
(***************************************************************************)
exclude_patterns ==
    <<"directory", "search", "prime", "turbo", "downloads", "jobs", "about",
      "p", "videos", "clips", "settings", "subscriptions", "inventory",
      "wallet", "drops", "friends">>

\* channel_name in exclude_patterns
InExcludePatterns(name) ==
    \E i \in 1..Len(exclude_patterns) : name = <<exclude_patterns[i]>>

\* path = href.split("twitch.tv/")[-1].strip("/")
PathOf(h) == Strip(AfterLast(h, <<"twitch.tv", "/">>), "/")

\* the conjunction computed on lines 247-250
IsValidPath(path) ==
    LET path_segments == Split(path, "/")
        channel_name  == path_segments[1]
    IN  /\ channel_name # <<>>
        /\ ~InExcludePatterns(channel_name)
        /\ StrLen(channel_name) > 1
        /\ Len(path_segments) = 1

\* _is_channel_link(element), given element.get_attribute("href")
\* (<<>> stands for None and for the empty string: both are falsy)
is_channel_link(h) ==
    IF h = <<>> \/ ~Contains(h, <<"twitch.tv", "/">>) THEN FALSE
    ELSE LET path == PathOf(h)
         IN  IF path = <<>> \/ Head(path) = "?" THEN FALSE
             ELSE IsValidPath(path)

(***************************************************************************)
(* Anchors and the href the browser reports for them                       *)
(***************************************************************************)
\* words a first path segment is drawn from: the exclusion list, a channel
\* name, a second channel name and a one-character name
FirstWords ==
    {exclude_patterns[i] : i \in 1..Len(exclude_patterns)}
        \cup {"ninja", "shroud", "x"}

\* words of the later path segments
RestWords == {"videos", "channels"}

RECURSIVE PathsOfLen(_)
PathsOfLen(n) ==
    IF n = 0 THEN {<<>>}
    ELSE IF n = 1 THEN {<<w>> : w \in FirstWords}
    ELSE {Append(p, w) : p \in PathsOfLen(n - 1), w \in RestWords}

Paths == UNION {PathsOfLen(n) : n \in 0..MaxSegs}

\* host: "site" www.twitch.tv, "lookalike" nottwitch.tv, "other" example.com,
\*       "none" for an element without href attribute (an h3)
\* query: "none", "plain" ?term=sc, "link" ?to=https://www.twitch.tv/ninja
\* frag: "none", "plain" #chat
Urls ==
    [host : {"site", "lookalike", "other"}, segs : Paths, slash : BOOLEAN,
     query : {"none", "plain", "link"}, frag : {"none", "plain"}]

NoHrefElement ==
    [host |-> "none", segs |-> <<>>, slash |-> FALSE, query |-> "none",
     frag |-> "none"]

HostTokens(host) ==
    CASE host = "site"      -> <<"www.", "twitch.tv">>
      [] host = "lookalike" -> <<"not", "twitch.tv">>
      [] OTHER              -> <<"example.com">>

RECURSIVE JoinPath(_)
\* the segments, each preceded by "/"
JoinPath(segs) ==
    IF segs = <<>> THEN <<>> ELSE <<"/", Head(segs)>> \o JoinPath(Tail(segs))

QueryTokens(q) ==
    CASE q = "plain" -> <<"?", "term=sc">>
      [] q = "link"  -> <<"?", "to=", "https:", "/", "/", "www.", "twitch.tv",
                          "/", "ninja">>
      [] OTHER       -> <<>>

FragTokens(f) == IF f = "plain" THEN <<"#", "chat">> ELSE <<>>

\* element.get_attribute("href"): the absolute URL the browser resolves
\* (its path is at least "/"), None for an element that has no href
Href(u) ==
    IF u.host = "none" THEN <<>>
    ELSE <<"https:", "/", "/">> \o HostTokens(u.host)
         \o (IF u.segs = <<>> THEN <<"/">> ELSE JoinPath(u.segs))
         \o (IF u.slash /\ u.segs # <<>> THEN <<"/">> ELSE <<>>)
         \o QueryTokens(u.query) \o FragTokens(u.frag)

(***************************************************************************)
(* The overlays of a page                                                  *)
(***************************************************************************)
\* the mature-content gate, a promotion with a Close button, a notice with
\* a Dismiss button, the cookie consent banner
Overlays == {"mature", "promo", "notice", "consent"}

\* a page about which nothing is known: the driver may answer anything
AnyPage == [known |-> FALSE, shown |-> {}]

\* a page known to show exactly the overlays of shown and to change only
\* when a click dismisses one of them, in a session that stays alive
KnownPage(shown) == [known |-> TRUE, shown |-> shown]

\* the overlays whose button a locator matches
Matches(loc) ==
    CASE loc = "MATURE_CONTENT_BUTTON"  -> {"mature"}
      [] loc = "consent-banner-accept"  -> {"consent"}
      [] loc = "accept-or-consent-text" -> {"consent"}
      [] loc = "CLOSE_BUTTON"           -> {"promo"}
      [] loc = "MODAL_CLOSE"            -> {"promo"}
      [] loc = "close-or-dismiss-label" -> {"promo", "notice"}
      [] OTHER                          -> {}

\* whether the driver can end a wait for loc with r: anything on an unknown
\* page; on a known page the session is alive (no fault) and the predicate
\* holds (r = good) exactly when an overlay with such a button is shown
CanAnswer(loc, r, good) ==
    page.known =>
        /\ r # "fault"
        /\ r = good <=> Matches(loc) \cap page.shown # {}

\* the page after a click on the button loc went through: one of the
\* overlays the button belongs to is gone
Dismissed(loc, next) ==
    IF page.known
    THEN \E o \in Matches(loc) \cap page.shown :
             next = [page EXCEPT !.shown = @ \ {o}]
    ELSE next = page

(***************************************************************************)
(* Specification SpecClassify: _is_channel_link on every enumerated anchor *)
(***************************************************************************)
InitClassify ==
    /\ url \in Urls \cup {NoHrefElement}
    /\ href = Href(url)
    /\ verdict = "none"
    /\ pc = "classify"
    /\ op = "_is_channel_link"
    /\ sel = 0
    /\ cards = <<>>
    /\ ret = <<>>
    /\ outcome = "running"
    /\ log = <<>>
    /\ page = AnyPage
    /\ calls = 1
    /\ polls = 0
    /\ Unused

IsChannelLinkCall ==
    /\ pc = "classify"
    /\ verdict' = IF is_channel_link(href) THEN "True" ELSE "False"
    /\ pc' = "classified"
    /\ outcome' = "returned"
    /\ UNCHANGED <<op, sel, cards, ret, log, url, href, page, calls, polls,
                   session, trace, apivars, parvars, scrollvars>>

NextClassify == IsChannelLinkCall

SpecClassify == InitClassify /\ [][NextClassify]_vars

(***************************************************************************)
(* The results page as the driver shows it                                 *)
(***************************************************************************)
Anchor(host, segs, query) ==
    [host |-> host, segs |-> segs, slash |-> FALSE, query |-> query,
     frag |-> "none"]

\* the anchors a results page is built from: two channels, a nested page of
\* a channel, the Channels tab, and the link to the search itself
SampleAnchors ==
    {Anchor("site", <<"ninja">>, "none"),
     Anchor("site", <<"shroud">>, "none"),
     Anchor("site", <<"shroud", "videos">>, "none"),
     Anchor("site", <<"search", "channels">>, "none"),
     Anchor("site", <<"search">>, "plain")}

RECURSIVE ListsUpTo(_, _)
\* the sequences of different members of S of length 0..n
ListsUpTo(S, n) ==
    IF n = 0 THEN {<<>>}
    ELSE LET shorter == ListsUpTo(S, n - 1)
         IN  shorter \cup
             UNION {{Append(l, e) : e \in S \ {l[i] : i \in 1..Len(l)}} :
                       l \in shorter}

\* cards[:10] keeps at most this many elements
FallbackLimit == 10

\* a list longer than FallbackLimit, of navigation links only
LongList == [i \in 1..(FallbackLimit + 1) |->
                Anchor("site", <<"search", "channels">>, "none")]

selectors_to_try ==
    <<"LIVE_CHANNELS", "STREAMER_CARDS", "SEARCH_RESULT_LINKS",
      "LINKS_WITH_H3", "ROOT_RELATIVE_LINKS">>

\* what a selector can match: LIVE_CHANNELS selects the h3 elements inside
\* anchors (elements without href), the other selectors select anchors
ElementsOf(loc) ==
    IF loc = "LIVE_CHANNELS" THEN {NoHrefElement} ELSE SampleAnchors

\* the non-empty lists presence_of_all_elements_located can yield for loc
ElementLists(loc) ==
    (ListsUpTo(ElementsOf(loc), MaxCards) \ {<<>>})
        \cup (IF loc = "LIVE_CHANNELS" THEN {} ELSE {LongList})

\* an anchor of a known document: its href, whether its class holds
\* "tw-link", and whether it holds an h3
DomAnchor(el, twlink, h3) == [el |-> el, twlink |-> twlink, h3 |-> h3]

\* whether the selector loc selects anchor x, or (LIVE_CHANNELS) its h3
Selects(loc, x) ==
    CASE loc = "LIVE_CHANNELS"       -> x.h3
      [] loc = "STREAMER_CARDS"      -> x.twlink
      [] loc = "SEARCH_RESULT_LINKS" -> x.twlink
      [] loc = "LINKS_WITH_H3"       -> x.h3
      [] loc = "ROOT_RELATIVE_LINKS" -> x.el.host = "site"

\* what find_elements(loc) yields on the known document, in document order
Located(loc) ==
    LET hits == SelectSeq(dom.anchors, LAMBDA x : Selects(loc, x))
    IN  [i \in 1..Len(hits) |->
            IF loc = "LIVE_CHANNELS" THEN NoHrefElement ELSE hits[i].el]

(***************************************************************************)
(* TwitchHomePage.get_live_streamer_cards                                  *)
(***************************************************************************)
\* a driver interaction: what was asked (act) of which locator (loc), whether
\* it yielded (ok), whether a yielded list held a link _is_channel_link
\* accepts (qual), and the element acted on (el)
Event(act, loc, ok, qual, el) ==
    [act |-> act, loc |-> loc, ok |-> ok, qual |-> qual, el |-> el]

\* the control transfer of a step
Ev(act, loc, ok) == Event(act, loc, ok, FALSE, NoHrefElement)

\* the event of a wait that ended with r: the predicate held (r = good), the
\* TimeoutException, or another exception ("fault")
WaitEv(act, loc, r, good) ==
    Ev(IF r = "fault" THEN "fault" ELSE act, loc, r = good)

(***************************************************************************)
(* WebDriverWait(driver, timeout).until(predicate)                         *)
(***************************************************************************)
\* the polls a timeout leaves room for after the first one
MaxPolls == 2

\* the program is inside the until of a wait
WaitLabels ==
    {"glsc_loop", "cfls_wait", "csi_find", "esq_probe", "esq_find",
     "esq_wait", "click_wait", "hcc_probe", "hm_mature", "hm_loop",
     "page_load"}

Waiting == pc \in WaitLabels

\* mutant of TimedOut: the wait has no timeout
TimedOutNever == FALSE

\* the timeout the wait was built with has elapsed: every wait of the page
\* objects is built with a finite one (5, 1, 0.5, 30 or 15 seconds)
TimedOut == polls >= MaxPolls

\* until: the predicate was false (or raised an ignored exception) and the
\* timeout has not elapsed: sleep for the poll interval and ask again
Poll ==
    /\ Waiting
    /\ ~TimedOut
    /\ polls <= MaxPolls
    /\ polls' = polls + 1
    /\ UNCHANGED <<pc, op, sel, cards, ret, outcome, log, url, href, verdict,
                   page, calls, session, trace, apivars, parvars, scrollvars>>

Goto(label, index, result) ==
    pc' = label /\ sel' = index /\ outcome' = result

\* a driver call that makes the browser load another page (driver.get, the
\* ENTER that submits the search, the click on a result) was made, and
\* succeeded or not
Navigates(ok) ==
    /\ nav' = IF ok THEN nav + 1 ELSE nav
    /\ UNCHANGED <<driver, got, request>>

\* find_element / find_elements / wait.until(...) handed element handles of
\* the page now shown to the caller, or failed
Finds(ok) ==
    /\ got' = IF ok THEN nav ELSE got
    /\ UNCHANGED <<driver, nav, request>>

\* filtered_cards = [card for card in cards if self._is_channel_link(card)]
FilteredCards(cs) == SelectSeq(cs, LAMBDA c : is_channel_link(Href(c)))

\* mutant of LoopReturns: the return inside the loop is lost, so every
\* selector is tried and the last one decides
LoopNeverReturns(found) == FALSE

\* "if cards:" and "if filtered_cards:" both taken: the loop returns
LoopReturns(found) == found # <<>> /\ FilteredCards(found) # <<>>

\* cards[:10] if cards else []
FallbackCards(cs) ==
    IF Len(cs) > FallbackLimit THEN SubSeq(cs, 1, FallbackLimit) ELSE cs

\* mutant of GlscReturn: an empty result is raised as an error
GlscReturnRaisesOnEmpty(value) ==
    /\ ret' = value
    /\ IF value = <<>>
       THEN pc' = "done" /\ outcome' = "raised"
       ELSE CASE op = "get_live_streamer_cards" ->
                     pc' = "done" /\ outcome' = "returned"
              [] op = "is_search_results_page_loaded" ->
                     pc' = "isr_ret" /\ outcome' = outcome
              [] OTHER -> pc' = "cfls_cards" /\ outcome' = outcome

\* the return of get_live_streamer_cards to whoever called it
GlscReturn(value) ==
    /\ ret' = value
    /\ CASE op = "get_live_streamer_cards" ->
                pc' = "done" /\ outcome' = "returned"
         [] op = "is_search_results_page_loaded" ->
                pc' = "isr_ret" /\ outcome' = outcome
         [] OTHER -> pc' = "cfls_cards" /\ outcome' = outcome

Idle == pc = "idle"

Done == pc = "done"

CallGetLiveStreamerCards ==
    /\ Idle
    /\ op' = "get_live_streamer_cards"
    /\ pc' = "glsc_loop"
    /\ sel' = 1
    /\ outcome' = "running"
    /\ UNCHANGED <<cards, ret, log, url, href, verdict, page, calls, polls,
                   session, trace, apivars, parvars, scrollvars>>

\* one iteration of the loop over selectors_to_try; found is what
\* self.find_elements(selector) returned (<<>> after its TimeoutException)
GlscIteration ==
    /\ pc = "glsc_loop"
    /\ \E found \in IF dom.known
                     THEN {Located(selectors_to_try[sel])}
                     ELSE ElementLists(selectors_to_try[sel]) \cup {<<>>} :
          /\ found = <<>> => TimedOut
          /\ cards' = found
          /\ log' = Append(log, Event("find_elements", selectors_to_try[sel],
                                      found # <<>>, FilteredCards(found) # <<>>,
                                      NoHrefElement))
          /\ Finds(found # <<>>)
          /\ IF LoopReturns(found)
             THEN GlscReturn(FilteredCards(found)) /\ sel' = sel
             ELSE IF sel < Len(selectors_to_try)
                  THEN sel' = sel + 1 /\ UNCHANGED <<pc, ret, outcome>>
                  ELSE GlscReturn(FallbackCards(found)) /\ sel' = sel
    /\ polls' = 0
    /\ UNCHANGED <<op, url, href, verdict, page, calls,
                   trace, apivars, parvars, scrollvars>>

\* find_elements raised something that is no TimeoutException: the outer
\* "except Exception" returns []
GlscFault ==
    /\ pc = "glsc_loop"
    /\ log' = Append(log, Event("fault", selectors_to_try[sel], FALSE, FALSE,
                                NoHrefElement))
    /\ GlscReturn(<<>>)
    /\ polls' = 0
    /\ UNCHANGED <<op, sel, cards, url, href, verdict, page, calls,
                   session, trace, apivars, parvars, scrollvars>>

(***************************************************************************)
(* TwitchHomePage.click_first_live_streamer                                *)
(***************************************************************************)
CallClickFirstLiveStreamer ==
    /\ Idle
    /\ op' = "click_first_live_streamer"
    /\ pc' = "glsc_loop"
    /\ sel' = 1
    /\ outcome' = "running"
    /\ UNCHANGED <<cards, ret, log, url, href, verdict, page, calls, polls,
                   session, trace, apivars, parvars, scrollvars>>

\* mutant of ClickTarget: the click goes to cards[-1]
ClickTargetLast(cs) == cs[Len(cs)]

\* the element the script click is issued on: cards[0]
ClickTarget(cs) == cs[1]

\* "else" branch: no cards; the exception is re-raised by the handler
CflsNoCards ==
    /\ pc = "cfls_cards"
    /\ ret = <<>>
    /\ pc' = "done"
    /\ outcome' = "raised"
    /\ UNCHANGED <<op, sel, cards, ret, log, url, href, verdict, page, calls, polls,
                   session, trace, apivars, parvars, scrollvars>>

\* "if cards:" branch up to the script click on cards[0]; a driver call
\* before the click (get_attribute, text, scrollIntoView) may raise
CflsClick ==
    /\ pc = "cfls_cards"
    /\ ret # <<>>
    /\ \E raises \in BOOLEAN :
          /\ Navigates(~raises)
          /\ IF raises
             THEN /\ log' = Append(log, Event("fault", "cards[0]", FALSE,
                                              FALSE, ret[1]))
                  /\ pc' = "done"
                  /\ outcome' = "raised"
             ELSE /\ log' = Append(log, Event("script_click", "cards[0]",
                                              TRUE, FALSE, ClickTarget(ret)))
                  /\ pc' = "cfls_wait"
                  /\ outcome' = outcome
    /\ UNCHANGED <<op, sel, cards, ret, url, href, verdict, page, calls, polls,
                   trace, apivars, parvars, scrollvars>>

\* the pages driver.current_url is drawn from: the home page, the search
\* results, a channel and a channel's videos
SitePage(segs, query) ==
    [host |-> "site", segs |-> segs, slash |-> FALSE, query |-> query,
     frag |-> "none"]

CurrentUrls ==
    {SitePage(<<>>, "none"), SitePage(<<"search">>, "plain"),
     SitePage(<<"ninja">>, "none"), SitePage(<<"ninja", "videos">>, "none")}

\* mutant of LeftSearch: the predicate of the wait is always true
LeftSearchAlways(u) == TRUE

\* lambda driver: "/search" not in driver.current_url
LeftSearch(u) == ~Contains(Href(u), <<"/", "search">>)

\* WebDriverWait(5).until(LeftSearch): seen is the URL of the last poll; the
\* wait returns when the predicate held for it, its TimeoutException is
\* re-raised by the handler, and so is an exception of current_url
CflsWait ==
    /\ pc = "cfls_wait"
    /\ \/ \E seen \in CurrentUrls :
             /\ LeftSearch(seen) \/ TimedOut
             /\ log' = Append(log, Event("url_wait", "not /search",
                                         LeftSearch(seen), FALSE, seen))
             /\ outcome' = IF LeftSearch(seen) THEN "returned" ELSE "raised"
       \/ /\ log' = Append(log, Ev("fault", "not /search", FALSE))
          /\ outcome' = "raised"
    /\ pc' = "done"
    /\ polls' = 0
    /\ UNCHANGED <<op, sel, cards, ret, url, href, verdict, page, calls,
                   session, trace, apivars, parvars, scrollvars>>

(***************************************************************************)
(* TwitchHomePage.click_search_icon                                        *)
(***************************************************************************)
search_icon_chain == <<"SEARCH_ICON", "SEARCH_BUTTON">>

CallClickSearchIcon ==
    /\ Idle
    /\ op' = "click_search_icon"
    /\ Goto("csi_probe", 1, "running")
    /\ UNCHANGED <<cards, ret, log, url, href, verdict, page, calls, polls,
                   session, trace, apivars, parvars, scrollvars>>

\* is_element_present(SEARCH_ICON), then "elif" is_element_present(SEARCH_BUTTON);
\* neither present: "Search icon not present" is raised; an exception other
\* than NoSuchElementException leaves is_element_present and is re-raised
CsiProbe ==
    /\ pc = "csi_probe"
    /\ \E r \in {"present", "absent", "fault"} :
          /\ log' = Append(log, Ev("is_element_present", search_icon_chain[sel],
                                   r = "present"))
          /\ CASE r = "present" -> Goto("csi_find", sel, outcome)
               [] r = "absent"  ->
                    IF sel < Len(search_icon_chain)
                    THEN Goto("csi_probe", sel + 1, outcome)
                    ELSE Goto("done", sel, "raised")
               [] OTHER         -> Goto("done", sel, "raised")
    /\ UNCHANGED <<op, cards, ret, url, href, verdict, page, calls, polls,
                   session, trace, apivars, parvars, scrollvars>>

\* search_element = self.find_element(<the selector found present>)
CsiFind ==
    /\ pc = "csi_find"
    /\ \E r \in {"found", "timeout", "fault"} :
          /\ r = "timeout" => TimedOut
          /\ log' = Append(log, WaitEv("find_element", search_icon_chain[sel],
                                       r, "found"))
          /\ Finds(r = "found")
          /\ IF r = "found" THEN Goto("csi_click", sel, outcome)
                      ELSE Goto("done", sel, "raised")
    /\ polls' = 0
    /\ UNCHANGED <<op, cards, ret, url, href, verdict, page, calls,
                   trace, apivars, parvars, scrollvars>>

\* self.driver.execute_script("arguments[0].click();", search_element)
CsiClick ==
    /\ pc = "csi_click"
    /\ \E ok \in BOOLEAN :
          /\ log' = Append(log, Ev("script_click", search_icon_chain[sel], ok))
          /\ Goto("done", sel, IF ok THEN "returned" ELSE "raised")
    /\ UNCHANGED <<op, cards, ret, url, href, verdict, page, calls, polls,
                   session, trace, apivars, parvars, scrollvars>>

(***************************************************************************)
(* TwitchHomePage.enter_search_query                                       *)
(***************************************************************************)
search_input_chain == <<"SEARCH_INPUT", "SEARCH_INPUT_ALT">>

CallEnterSearchQuery ==
    /\ Idle
    /\ op' = "enter_search_query"
    /\ Goto("esq_probe", 1, "running")
    /\ UNCHANGED <<cards, ret, log, url, href, verdict, page, calls, polls,
                   session, trace, apivars, parvars, scrollvars>>

\* is_element_visible(SEARCH_INPUT, 5), then "elif" the same for
\* SEARCH_INPUT_ALT; neither visible: "Search input field not found"
EsqProbe ==
    /\ pc = "esq_probe"
    /\ \E r \in {"visible", "timeout", "fault"} :
          /\ r = "timeout" => TimedOut
          /\ log' = Append(log, WaitEv("wait_visible",
                                       search_input_chain[sel], r, "visible"))
          /\ CASE r = "visible" -> Goto("esq_find", sel, outcome)
               [] r = "timeout" ->
                    IF sel < Len(search_input_chain)
                    THEN Goto("esq_probe", sel + 1, outcome)
                    ELSE Goto("done", sel, "raised")
               [] OTHER         -> Goto("done", sel, "raised")
    /\ polls' = 0
    /\ UNCHANGED <<op, cards, ret, url, href, verdict, page, calls,
                   session, trace, apivars, parvars, scrollvars>>

\* search_input = self.find_element(<the selector found visible>)
EsqFind ==
    /\ pc = "esq_find"
    /\ \E r \in {"found", "timeout", "fault"} :
          /\ r = "timeout" => TimedOut
          /\ log' = Append(log, WaitEv("find_element", search_input_chain[sel],
                                       r, "found"))
          /\ Finds(r = "found")
          /\ IF r = "found" THEN Goto("esq_click", sel, outcome)
                      ELSE Goto("done", sel, "raised")
    /\ polls' = 0
    /\ UNCHANGED <<op, cards, ret, url, href, verdict, page, calls,
                   trace, apivars, parvars, scrollvars>>

\* search_input.click(): a native click; an interception is re-raised
EsqClick ==
    /\ pc = "esq_click"
    /\ \E ok \in BOOLEAN :
          /\ log' = Append(log, Ev("native_click", search_input_chain[sel], ok))
          /\ IF ok THEN Goto("esq_type", sel, outcome)
                   ELSE Goto("done", sel, "raised")
    /\ UNCHANGED <<op, cards, ret, url, href, verdict, page, calls, polls,
                   session, trace, apivars, parvars, scrollvars>>

\* clear(), send_keys(query), send_keys(Keys.ENTER)
EsqType ==
    /\ pc = "esq_type"
    /\ \E ok \in BOOLEAN :
          /\ log' = Append(log, Ev("send_keys", search_input_chain[sel], ok))
          /\ Navigates(ok)
          /\ IF ok THEN Goto("esq_wait", sel, outcome)
                   ELSE Goto("done", sel, "raised")
    /\ UNCHANGED <<op, cards, ret, url, href, verdict, page, calls, polls,
                   trace, apivars, parvars, scrollvars>>

\* mutant of UrlContainsSearch: the predicate of the wait is always true
UrlContainsAnything(u) == TRUE

\* EC.url_contains("/search")
UrlContainsSearch(u) == Contains(Href(u), <<"/", "search">>)

\* WebDriverWait(5).until(EC.url_contains("/search")): seen is the URL of
\* the last poll; the TimeoutException, or another exception of current_url,
\* is re-raised by the handler
EsqWait ==
    /\ pc = "esq_wait"
    /\ \/ \E seen \in CurrentUrls :
             /\ UrlContainsSearch(seen) \/ TimedOut
             /\ log' = Append(log, Event("url_wait", "/search",
                                         UrlContainsSearch(seen), FALSE, seen))
             /\ IF UrlContainsSearch(seen)
                THEN Goto("esq_url", sel, outcome)
                ELSE Goto("done", sel, "raised")
       \/ /\ log' = Append(log, Ev("fault", "/search", FALSE))
          /\ Goto("done", sel, "raised")
    /\ polls' = 0
    /\ UNCHANGED <<op, cards, ret, url, href, verdict, page, calls,
                   session, trace, apivars, parvars, scrollvars>>

\* current_url = self.get_current_url(), the last statement of the try
EsqCurrentUrl ==
    /\ pc = "esq_url"
    /\ \E ok \in BOOLEAN :
          /\ log' = Append(log, Ev("current_url", "", ok))
          /\ Goto("done", sel, IF ok THEN "returned" ELSE "raised")
    /\ UNCHANGED <<op, cards, ret, url, href, verdict, page, calls, polls,
                   session, trace, apivars, parvars, scrollvars>>

(***************************************************************************)
(* BasePage.click, and its callers handle_cookie_consent and handle_modals *)
(***************************************************************************)
cookie_selectors == <<"consent-banner-accept", "accept-or-consent-text">>

close_selectors ==
    <<"CLOSE_BUTTON", "MODAL_CLOSE", "close-or-dismiss-label",
      "consent-banner-accept">>

\* handle_cookie_consent runs on its own or as the last statement of open
InCookie == op \in {"handle_cookie_consent", "open"}

\* handle_modals runs on its own or as the last statement of
\* wait_for_page_to_load
InModals == op \in {"handle_modals", "wait_for_page_to_load"}

\* the locator BasePage.click was called with
ClickLocator ==
    CASE InCookie -> cookie_selectors[sel]
      [] InModals -> "MATURE_CONTENT_BUTTON"
      [] OTHER                        -> "locator"

\* handle_cookie_consent: "continue" with the next selector, or fall out of
\* the loop and return
CookieNext ==
    IF sel < Len(cookie_selectors)
    THEN Goto("hcc_probe", sel + 1, outcome)
    ELSE Goto("done", sel, "returned")

\* mutant of CookieAfterClick: the "except Exception: continue" is lost and
\* a failed click leaves handle_cookie_consent as an exception
CookieAfterClickPropagates(ok) ==
    Goto("done", sel, IF ok THEN "returned" ELSE "raised")

\* handle_cookie_consent after self.click(selector): "return" when the click
\* went through, "except Exception: continue" when it raised
CookieAfterClick(ok) ==
    IF ok THEN Goto("done", sel, "returned") ELSE CookieNext

\* where control goes when BasePage.click returns (ok) or raises (~ok)
AfterClick(ok) ==
    CASE InCookie -> CookieAfterClick(ok)
      [] InModals -> Goto("hm_loop", 1, outcome)
      [] OTHER -> Goto("done", sel, IF ok THEN "returned" ELSE "raised")

\* what BasePage.click does when the native path failed: log and re-raise
ClickFailed == AfterClick(FALSE)

CallClick ==
    /\ Idle
    /\ op' = "click"
    /\ Goto("click_wait", 0, "running")
    /\ UNCHANGED <<cards, ret, log, url, href, verdict, page, calls, polls,
                   session, trace, apivars, parvars, scrollvars>>

\* element = self.wait.until(EC.element_to_be_clickable(locator))
BaseClickWait ==
    /\ pc = "click_wait"
    /\ \E r \in {"clickable", "timeout", "fault"} :
          /\ r = "timeout" => TimedOut
          /\ CanAnswer(ClickLocator, r, "clickable")
          /\ log' = Append(log, WaitEv("wait_clickable", ClickLocator, r,
                                       "clickable"))
          /\ Finds(r = "clickable")
          /\ IF r = "clickable" THEN Goto("click_native", sel, outcome)
                                ELSE ClickFailed
    /\ polls' = 0
    /\ UNCHANGED <<op, cards, ret, url, href, verdict, page, calls,
                   trace, apivars, parvars, scrollvars>>

\* element.click()
BaseClickNative ==
    /\ pc = "click_native"
    /\ \E ok \in BOOLEAN :
          /\ log' = Append(log, Ev("native_click", ClickLocator, ok))
          /\ IF ok THEN AfterClick(TRUE) /\ Dismissed(ClickLocator, page')
                   ELSE ClickFailed /\ page' = page
    /\ UNCHANGED <<op, cards, ret, url, href, verdict, calls, polls,
                   session, trace, apivars, parvars, scrollvars>>

CallHandleCookieConsent ==
    /\ Idle
    /\ op' = "handle_cookie_consent"
    /\ Goto("hcc_probe", 1, "running")
    /\ UNCHANGED <<cards, ret, log, url, href, verdict, page, calls, polls,
                   session, trace, apivars, parvars, scrollvars>>

\* if self.is_element_visible(selector, timeout=1): self.click(selector)
HccProbe ==
    /\ pc = "hcc_probe"
    /\ \E r \in {"visible", "timeout", "fault"} :
          /\ r = "timeout" => TimedOut
          /\ CanAnswer(cookie_selectors[sel], r, "visible")
          /\ log' = Append(log, WaitEv("wait_visible", cookie_selectors[sel],
                                       r, "visible"))
          /\ IF r = "visible" THEN Goto("click_wait", sel, outcome)
                              ELSE CookieNext
    /\ polls' = 0
    /\ UNCHANGED <<op, cards, ret, url, href, verdict, page, calls,
                   session, trace, apivars, parvars, scrollvars>>

(***************************************************************************)
(* TwitchStreamerPage.handle_modals, BasePage.close_modal_if_present       *)
(***************************************************************************)
CallHandleModals ==
    /\ Idle
    /\ op' = "handle_modals"
    /\ Goto("hm_mature", 0, "running")
    /\ UNCHANGED <<cards, ret, log, url, href, verdict, page, calls, polls,
                   session, trace, apivars, parvars, scrollvars>>

\* first try-block: if is_element_visible(MATURE_CONTENT_BUTTON, 1): click it
HmMature ==
    /\ pc = "hm_mature"
    /\ \E r \in {"visible", "timeout", "fault"} :
          /\ r = "timeout" => TimedOut
          /\ CanAnswer("MATURE_CONTENT_BUTTON", r, "visible")
          /\ log' = Append(log, WaitEv("wait_visible",
                                       "MATURE_CONTENT_BUTTON", r, "visible"))
          /\ IF r = "visible" THEN Goto("click_wait", sel, outcome)
                              ELSE Goto("hm_loop", 1, outcome)
    /\ polls' = 0
    /\ UNCHANGED <<op, cards, ret, url, href, verdict, page, calls,
                   session, trace, apivars, parvars, scrollvars>>

\* the loop over close_selectors goes on with the next selector, or ends
CloseNext ==
    IF sel < Len(close_selectors)
    THEN Goto("hm_loop", sel + 1, outcome)
    ELSE Goto("done", sel, "returned")

\* mutant of CloseAfterClick: the "break" is lost
CloseAfterClickNoBreak(ok) == CloseNext

\* "if self.close_modal_if_present(...): break" against "continue"
CloseAfterClick(ok) ==
    IF ok THEN Goto("done", sel, "returned") ELSE CloseNext

\* mutant of CloseModalTimeout: the TimeoutException is answered with True
CloseModalTimeoutTrue == "True"

\* close_modal_if_present: "except TimeoutException: return False"
CloseModalTimeout == "False"

\* close_modal_if_present ends with r: "True" after the click, the answer to
\* a TimeoutException, or "raise" for any other exception.  Called by the
\* test the answer is the call's result; in the loop of handle_modals True
\* is "break" and both False and an exception go on with the next selector
CloseModalEnds(r) ==
    IF op = "close_modal_if_present"
    THEN /\ Goto("done", sel, IF r = "raise" THEN "raised" ELSE "returned")
         /\ verdict' = IF r = "raise" THEN verdict ELSE r
    ELSE /\ CloseAfterClick(r = "True")
         /\ verdict' = verdict

\* close_modal_if_present(locator) called on its own, with one of the close
\* locators
CallCloseModalIfPresent ==
    /\ Idle
    /\ op' = "close_modal_if_present"
    /\ \E index \in 1..Len(close_selectors) : Goto("hm_loop", index, "running")
    /\ UNCHANGED <<cards, ret, log, url, href, verdict, page, calls, polls,
                   session, trace, apivars, parvars, scrollvars>>

\* close_modal_if_present: wait.until(EC.element_to_be_clickable(...))
HmWait ==
    /\ pc = "hm_loop"
    /\ \E r \in {"clickable", "timeout", "fault"} :
          /\ r = "timeout" => TimedOut
          /\ CanAnswer(close_selectors[sel], r, "clickable")
          /\ log' = Append(log, WaitEv("wait_clickable",
                                       close_selectors[sel], r, "clickable"))
          /\ Finds(r = "clickable")
          /\ CASE r = "clickable" ->
                     Goto("hm_click", sel, outcome) /\ verdict' = verdict
               [] r = "timeout" ->
                     CloseModalEnds(CloseModalTimeout)
               [] r = "fault" -> CloseModalEnds("raise")
    /\ polls' = 0
    /\ UNCHANGED <<op, cards, ret, url, href, page, calls,
                   trace, apivars, parvars, scrollvars>>

\* close_modal_if_present: close_button.click(); return True
HmClick ==
    /\ pc = "hm_click"
    /\ \E ok \in BOOLEAN :
          /\ log' = Append(log, Ev("native_click", close_selectors[sel], ok))
          /\ IF ok THEN /\ CloseModalEnds("True")
                        /\ Dismissed(close_selectors[sel], page')
                   ELSE /\ CloseModalEnds("raise")
                        /\ page' = page
    /\ UNCHANGED <<op, cards, ret, url, href, calls, polls,
                   session, trace, apivars, parvars, scrollvars>>

\* the same call is made a second time, right after the first one ended
CallAgain ==
    /\ Done
    /\ calls = 1
    /\ polls = 0
    /\ calls' = 2
    /\ log' = Append(log, Ev("call", op, TRUE))
    /\ CASE op = "handle_cookie_consent"  -> Goto("hcc_probe", 1, "running")
         [] op = "handle_modals"          -> Goto("hm_mature", 0, "running")
         [] op = "close_modal_if_present" -> Goto("hm_loop", sel, "running")
    /\ verdict' = "none"
    /\ UNCHANGED <<op, cards, ret, url, href, page, polls,
                   session, trace, apivars, parvars, scrollvars>>

(***************************************************************************)
(* BasePage.wait_for_page_load and its callers TwitchHomePage.open and     *)
(* TwitchStreamerPage.wait_for_page_to_load                                *)
(***************************************************************************)
CallOpen ==
    /\ Idle
    /\ op' = "open"
    /\ Goto("navigate", 0, "running")
    /\ UNCHANGED <<cards, ret, log, url, href, verdict, page, calls, polls,
                   session, trace, apivars, parvars, scrollvars>>

\* navigate_to: self.driver.get(url); an exception of the driver is not
\* handled
OpenNavigate ==
    /\ pc = "navigate"
    /\ \E ok \in BOOLEAN :
          /\ log' = Append(log, Ev("get", "https://www.twitch.tv", ok))
          /\ Navigates(ok)
          /\ IF ok THEN Goto("page_load", sel, outcome)
                   ELSE Goto("done", sel, "raised")
    /\ UNCHANGED <<op, cards, ret, url, href, verdict, page, calls, polls,
                   trace, apivars, parvars, scrollvars>>

CallWaitForPageToLoad ==
    /\ Idle
    /\ op' = "wait_for_page_to_load"
    /\ Goto("page_load", 0, "running")
    /\ UNCHANGED <<cards, ret, log, url, href, verdict, page, calls, polls,
                   session, trace, apivars, parvars, scrollvars>>

\* the statement after self.wait_for_page_load(): handle_cookie_consent in
\* open, handle_modals in wait_for_page_to_load (the sleep between is not
\* modelled)
AfterPageLoad ==
    IF op = "open" THEN Goto("hcc_probe", 1, outcome)
                   ELSE Goto("hm_mature", 0, outcome)

\* mutant of PageLoadTimeout: the wait has no timeout and blocks
PageLoadTimeoutHangs == Goto("blocked", sel, outcome)

\* wait_for_page_load: "except TimeoutException: logger.warning(...)", and
\* the method returns
PageLoadTimeout == AfterPageLoad

\* wait_for_page_load: wait.until(readyState == "complete"); an exception
\* of execute_script that is no TimeoutException is not caught
WaitForPageLoad ==
    /\ pc = "page_load"
    /\ \E r \in {"complete", "timeout", "fault"} :
          /\ r = "timeout" => TimedOut
          /\ log' = Append(log, WaitEv("ready_state", "complete", r,
                                       "complete"))
          /\ CASE r = "complete" -> AfterPageLoad
               [] r = "timeout"  -> PageLoadTimeout
               [] r = "fault"    -> Goto("done", sel, "raised")
    /\ polls' = 0
    /\ UNCHANGED <<op, cards, ret, url, href, verdict, page, calls,
                   session, trace, apivars, parvars, scrollvars>>

(***************************************************************************)
(* TwitchHomePage.scroll_down, BasePage.scroll_by_pixels                   *)
(***************************************************************************)
\* most scrolls asked of one scroll_down
MaxTimes == 2

\* what the scroll script scrolled: the first scrollable element of the
\* probed selectors, the first scrollable element of the document, or the
\* window
ScrollTargets == {"selector", "element", "window"}

\* scroll_down(times, pixels=500)
Pixels == 500

\* var selectors = ['main[role="main"]', 'div[data-a-page-loaded="true"]',
\*                  '#root', 'body', 'html']
scroll_selectors == <<"main", "page-loaded", "#root", "body", "html">>

\* the margin of the second tier: scrollHeight > clientHeight + 100
ScrollMargin == 100

\* an element of the document as the scroll script sees it: the selector of
\* the list it matches ("div": none), its computed overflow-y, its heights,
\* and the pixels the script added to its scrollTop
Box(matches, overflowY, scrollHeight, clientHeight) ==
    [matches |-> matches, overflowY |-> overflowY,
     scrollHeight |-> scrollHeight, clientHeight |-> clientHeight,
     added |-> 0]

\* function isScrollable(element)
isScrollable(element) ==
    /\ element.overflowY \in {"scroll", "auto"}
    /\ element.scrollHeight > element.clientHeight

\* the first of the boxes (indexes) hits in document order (0: none)
FirstBox(hits) ==
    IF hits = {} THEN 0 ELSE CHOOSE j \in hits : \A k \in hits : j <= k

\* "Check specific selectors first": selector after selector, from the i-th
\* on, the first scrollable element among document.querySelectorAll(selector)
RECURSIVE ProbeSelectors(_, _)
ProbeSelectors(boxes, i) ==
    IF i > Len(scroll_selectors) THEN 0
    ELSE LET el == FirstBox({j \in 1..Len(boxes) :
                       /\ boxes[j].matches = scroll_selectors[i]
                       /\ isScrollable(boxes[j])})
         IN  IF el # 0 THEN el ELSE ProbeSelectors(boxes, i + 1)

\* "try scrolling all scrollable elements": the first element of
\* document.querySelectorAll('*') that is scrollable by more than the margin
ProbeAllElements(boxes) ==
    FirstBox({j \in 1..Len(boxes) :
        /\ isScrollable(boxes[j])
        /\ boxes[j].scrollHeight > boxes[j].clientHeight + ScrollMargin})

\* mutant of ScrollAndReturn: the return is lost and the script goes on to
\* window.scrollBy
ScrollAndGoOn(el) == <<el, 0>>

\* el.scrollTop += pixels; return {scrolled: true, ...}
ScrollAndReturn(el) == <<el>>

\* the scroll script: the boxes it adds the pixels to, in the order it does
\* (0: the window, by window.scrollBy)
ScrollScript(boxes) ==
    IF ProbeSelectors(boxes, 1) # 0
    THEN ScrollAndReturn(ProbeSelectors(boxes, 1))
    ELSE IF ProbeAllElements(boxes) # 0
         THEN ScrollAndReturn(ProbeAllElements(boxes))
         ELSE <<0>>

\* the 'selector' the script reports for a document
ScriptReport(boxes) ==
    IF ProbeSelectors(boxes, 1) # 0 THEN "selector"
    ELSE IF ProbeAllElements(boxes) # 0 THEN "element" ELSE "window"

\* the document after the pixels were added to the targets
RECURSIVE AfterScroll(_, _)
AfterScroll(d, targets) ==
    IF targets = <<>> THEN d
    ELSE LET t == Head(targets)
             next ==
                 IF t = 0
                 THEN [d EXCEPT !.window = @ + Pixels]
                 ELSE [d EXCEPT !.boxes[t].added = @ + Pixels]
         IN  AfterScroll(next, Tail(targets))

\* scroll_down(times, pixels); sel counts the scrolls still to do
CallScrollDown ==
    /\ Idle
    /\ op' = "scroll_down"
    /\ \E times \in 0..MaxTimes :
          IF times = 0 THEN Goto("done", 0, "returned")
                       ELSE Goto("scroll", times, "running")
    /\ UNCHANGED <<cards, ret, log, url, href, verdict, page, calls, polls,
                   session, trace, apivars, parvars, scrollvars>>

\* scroll_by_pixels: "except Exception: logger.error(...); raise", which
\* scroll_down does not handle
ScrollFailed == Goto("done", sel, "raised")

\* one iteration of "for i in range(times): self.scroll_by_pixels(pixels)":
\* execute_script runs the scroll script, or raises
ScrollByPixels ==
    /\ pc = "scroll"
    /\ \/ /\ \E target \in IF dom.known THEN {ScriptReport(dom.boxes)}
                                         ELSE ScrollTargets :
                log' = Append(log, Ev("execute_script", target, TRUE))
          /\ dom' = IF dom.known THEN AfterScroll(dom, ScrollScript(dom.boxes))
                                 ELSE dom
          /\ IF sel > 1 THEN Goto("scroll", sel - 1, outcome)
                        ELSE Goto("done", 0, "returned")
       \/ /\ log' = Append(log, Ev("execute_script", "scroll", FALSE))
          /\ dom' = dom
          /\ ScrollFailed
    /\ UNCHANGED <<op, cards, ret, url, href, verdict, page, calls, polls,
                   session, trace, apivars, parvars, initial_cards>>

(***************************************************************************)
(* The calls of the test besides the ones above: get_current_url,          *)
(* take_screenshot, is_search_results_page_loaded,                         *)
(* is_page_loaded_successfully                                             *)
(***************************************************************************)
\* BasePage.get_current_url called by the test: driver.current_url
GetCurrentUrl ==
    /\ pc = "cur_url"
    /\ \/ \E seen \in CurrentUrls :
             /\ url' = seen
             /\ log' = Append(log, Event("current_url", "", TRUE, FALSE, seen))
             /\ Goto("done", sel, "returned")
       \/ /\ url' = url
          /\ log' = Append(log, Ev("current_url", "", FALSE))
          /\ Goto("done", sel, "raised")
    /\ UNCHANGED <<op, cards, ret, href, verdict, page, calls, polls,
                   session, trace, apivars, parvars, scrollvars>>

\* take_screenshot: driver.save_screenshot; "except Exception: raise"
TakeScreenshot ==
    /\ pc = "screenshot"
    /\ \E ok \in BOOLEAN :
          /\ log' = Append(log, Ev("save_screenshot", "", ok))
          /\ Goto("done", sel, IF ok THEN "returned" ELSE "raised")
    /\ UNCHANGED <<op, cards, ret, url, href, verdict, page, calls, polls,
                   session, trace, apivars, parvars, scrollvars>>

\* is_search_results_page_loaded: current_url = self.get_current_url(),
\* then get_live_streamer_cards
IsrCurrentUrl ==
    /\ pc = "isr_url"
    /\ \/ \E seen \in CurrentUrls :
             /\ url' = seen
             /\ log' = Append(log, Event("current_url", "", TRUE, FALSE, seen))
             /\ Goto("glsc_loop", 1, outcome)
       \/ /\ url' = url
          /\ log' = Append(log, Ev("current_url", "", FALSE))
          /\ Goto("done", sel, "raised")
    /\ UNCHANGED <<op, cards, ret, href, verdict, page, calls, polls,
                   session, trace, apivars, parvars, scrollvars>>

\* is_loaded = is_search_page and has_cards
IsrReturn ==
    /\ pc = "isr_ret"
    /\ verdict' = IF UrlContainsSearch(url) /\ ret # <<>> THEN "True"
                                                         ELSE "False"
    /\ Goto("done", sel, "returned")
    /\ UNCHANGED <<op, cards, ret, log, url, href, page, calls, polls,
                   session, trace, apivars, parvars, scrollvars>>

\* "twitch.tv" in current_url and len(current_url.split("/")) > 3
url_check(u) ==
    Contains(Href(u), <<"twitch.tv">>) /\ Len(Split(Href(u), "/")) > 3

\* is_page_loaded_successfully: the URL check, "return True" when
\* get_current_url raised
IsPageLoadedSuccessfully ==
    /\ pc = "ipl_url"
    /\ \/ \E seen \in CurrentUrls :
             /\ url' = seen
             /\ log' = Append(log, Event("current_url", "", TRUE, FALSE, seen))
             /\ verdict' = IF url_check(seen) THEN "True" ELSE "False"
       \/ /\ url' = url
          /\ log' = Append(log, Ev("current_url", "", FALSE))
          /\ verdict' = "True"
    /\ Goto("done", sel, "returned")
    /\ UNCHANGED <<op, cards, ret, href, page, calls, polls,
                   session, trace, apivars, parvars, scrollvars>>

(***************************************************************************)
(* test_search_starcraft_and_select_streamer: the calls of the test in     *)
(* their order, and its reads of cards[0] ("read_first_card")              *)
(***************************************************************************)
\* first_card = cards[0]; first_card.get_attribute("href"); first_card.text
ReadFirstCard ==
    /\ pc = "first_card"
    /\ \E ok \in BOOLEAN :
          /\ log' = Append(log, Ev("get_attribute", "cards[0]", ok))
          /\ Goto("done", sel, IF ok THEN "returned" ELSE "raised")
    /\ UNCHANGED <<op, cards, ret, url, href, verdict, page, calls, polls,
                   session, trace, apivars, parvars, scrollvars>>

\* mutant of Workflow: the test reads cards[0] after the click on the result
WorkflowReadsAfterClick ==
    <<"open", "click_search_icon", "enter_search_query", "take_screenshot",
      "get_current_url", "is_search_results_page_loaded",
      "get_live_streamer_cards", "scroll_down", "scroll_down",
      "take_screenshot", "get_live_streamer_cards",
      "click_first_live_streamer", "read_first_card", "get_current_url",
      "wait_for_page_to_load", "is_page_loaded_successfully",
      "take_screenshot">>

Workflow ==
    <<"open", "click_search_icon", "enter_search_query", "take_screenshot",
      "get_current_url", "is_search_results_page_loaded",
      "get_live_streamer_cards", "scroll_down", "scroll_down",
      "take_screenshot", "get_live_streamer_cards", "read_first_card",
      "click_first_live_streamer", "get_current_url", "wait_for_page_to_load",
      "is_page_loaded_successfully", "take_screenshot">>

\* where a call of the test begins: its first label and index
EntryLabel(call) ==
    CASE call = "open"                          -> "navigate"
      [] call = "click_search_icon"             -> "csi_probe"
      [] call = "enter_search_query"            -> "esq_probe"
      [] call = "take_screenshot"               -> "screenshot"
      [] call = "get_current_url"               -> "cur_url"
      [] call = "is_search_results_page_loaded" -> "isr_url"
      [] call = "get_live_streamer_cards"       -> "glsc_loop"
      [] call = "scroll_down"                   -> "scroll"
      [] call = "click_first_live_streamer"     -> "glsc_loop"
      [] call = "wait_for_page_to_load"         -> "page_load"
      [] call = "is_page_loaded_successfully"   -> "ipl_url"
      [] call = "read_first_card"               -> "first_card"

EntryIndex(call) ==
    IF call \in {"click_search_icon", "enter_search_query",
                 "get_live_streamer_cards", "scroll_down",
                 "click_first_live_streamer"}
    THEN 1 ELSE 0

\* the assert statement of the test that follows the call just made
AssertionHolds ==
    CASE op = "is_search_results_page_loaded" -> verdict = "True"
      [] op = "get_live_streamer_cards"       -> ret # <<>>
      [] op = "get_current_url" /\ calls > 1
             /\ Workflow[calls - 1] = "click_first_live_streamer"
                                              -> LeftSearch(url)
      [] op = "is_page_loaded_successfully"   -> verdict = "True"
      [] OTHER                                -> TRUE

\* what an interaction of a call means for the course of the test: the
\* navigation to the origin, the start of the modal dismissal there, the
\* click on the search affordance, the results URL seen by the wait, the
\* click on a result, the URL seen to have left the results, the wait for
\* the destination's load and the start of the modal dismissal there
MilestoneOf(call, e) ==
    CASE e.act = "get" /\ e.ok -> <<"origin_navigation">>
      [] e.act \in {"wait_visible", "fault"} /\ e.loc = cookie_selectors[1]
             /\ call = "open" -> <<"origin_dismissal">>
      [] e.act = "script_click" /\ e.ok /\ call = "click_search_icon"
             -> <<"search_click">>
      [] e.act = "url_wait" /\ e.loc = "/search"
             /\ Contains(Href(e.el), <<"/", "search">>) -> <<"results_url">>
      [] e.act = "script_click" /\ e.ok
             /\ call = "click_first_live_streamer" -> <<"result_click">>
      [] e.act = "url_wait" /\ e.loc = "not /search"
             /\ ~Contains(Href(e.el), <<"/", "search">>) -> <<"left_results">>
      [] e.act \in {"ready_state", "fault"} /\ e.loc = "complete"
             /\ call = "wait_for_page_to_load" -> <<"destination_load_wait">>
      [] e.act \in {"wait_visible", "fault"}
             /\ e.loc = "MATURE_CONTENT_BUTTON"
             /\ call = "wait_for_page_to_load" -> <<"destination_dismissal">>
      [] OTHER -> <<>>

\* the milestones of a call's interactions in their order, each named when
\* it is first reached
RECURSIVE MilestonesFrom(_, _, _)
MilestonesFrom(call, l, acc) ==
    IF l = <<>> THEN acc
    ELSE LET m == MilestoneOf(call, Head(l))
         IN  MilestonesFrom(call, Tail(l),
                 IF m = <<>> \/ \E i \in 1..Len(acc) : acc[i] = m[1]
                 THEN acc ELSE acc \o m)

Milestones(call, l) == MilestonesFrom(call, l, <<>>)

\* the test makes its first call
WfStart ==
    /\ Idle
    /\ op' = Workflow[1]
    /\ Goto(EntryLabel(Workflow[1]), EntryIndex(Workflow[1]), "running")
    /\ UNCHANGED <<cards, ret, log, url, href, verdict, page, calls, polls,
                   session, trace, apivars, parvars, scrollvars>>

\* a call returned and its assertion held: the test makes its next call
WfStep ==
    /\ Done
    /\ outcome = "returned"
    /\ AssertionHolds
    /\ calls < Len(Workflow)
    /\ calls' = calls + 1
    /\ op' = Workflow[calls + 1]
    /\ Goto(EntryLabel(Workflow[calls + 1]), EntryIndex(Workflow[calls + 1]),
            "running")
    /\ cards' = <<>>
    /\ ret' = <<>>
    /\ log' = <<>>
    /\ verdict' = "none"
    /\ url' = NoHrefElement
    /\ trace' = trace \o Milestones(op, log)
    /\ UNCHANGED <<href, page, polls, session, apivars, parvars, scrollvars>>

\* the test ends: an exception or a failed assertion fails it, the return of
\* its last call passes it
WfFinish ==
    /\ Done
    /\ outcome = "raised" \/ ~AssertionHolds \/ calls = Len(Workflow)
    /\ pc' = "finished"
    /\ outcome' = IF outcome = "returned" /\ AssertionHolds THEN "passed"
                                                            ELSE "failed"
    /\ UNCHANGED <<op, sel, cards, ret, log, url, href, verdict, page, calls,
                   polls, session, trace, apivars, parvars, scrollvars>>

(***************************************************************************)
(* Specification Spec: one call of a page-object method, the driver's      *)
(* answers chosen by the environment                                       *)
(***************************************************************************)
Init ==
    /\ pc = "idle"
    /\ op = "none"
    /\ sel = 0
    /\ cards = <<>>
    /\ ret = <<>>
    /\ outcome = "none"
    /\ log = <<>>
    /\ url = NoHrefElement
    /\ href = <<>>
    /\ verdict = "none"
    /\ page = AnyPage
    /\ calls = 1
    /\ polls = 0
    /\ Unused

Next ==
    \/ CallGetLiveStreamerCards
    \/ GlscIteration
    \/ GlscFault
    \/ CallClickFirstLiveStreamer
    \/ CflsNoCards
    \/ CflsClick
    \/ CflsWait
    \/ CallClickSearchIcon
    \/ CsiProbe
    \/ CsiFind
    \/ CsiClick
    \/ CallEnterSearchQuery
    \/ EsqProbe
    \/ EsqFind
    \/ EsqClick
    \/ EsqType
    \/ EsqWait
    \/ EsqCurrentUrl
    \/ CallClick
    \/ BaseClickWait
    \/ BaseClickNative
    \/ CallHandleCookieConsent
    \/ HccProbe
    \/ CallHandleModals
    \/ HmMature
    \/ HmWait
    \/ HmClick
    \/ CallOpen
    \/ OpenNavigate
    \/ CallWaitForPageToLoad
    \/ WaitForPageLoad
    \/ CallScrollDown
    \/ ScrollByPixels
    \/ Poll

Spec == Init /\ [][Next]_vars

\* the thread of the test keeps running: a step that can be taken is taken
FairSpec == Spec /\ WF_vars(Next)

(***************************************************************************)
(* Specification SpecWorkflow: the whole test, call after call, the        *)
(* driver's answers chosen by the environment, the test thread kept        *)
(* running                                                                 *)
(***************************************************************************)
NextWorkflow ==
    \/ WfStart
    \/ WfStep
    \/ WfFinish
    \/ ReadFirstCard
    \/ OpenNavigate
    \/ WaitForPageLoad
    \/ HccProbe
    \/ BaseClickWait
    \/ BaseClickNative
    \/ CsiProbe
    \/ CsiFind
    \/ CsiClick
    \/ EsqProbe
    \/ EsqFind
    \/ EsqClick
    \/ EsqType
    \/ EsqWait
    \/ EsqCurrentUrl
    \/ TakeScreenshot
    \/ GetCurrentUrl
    \/ IsrCurrentUrl
    \/ GlscIteration
    \/ GlscFault
    \/ IsrReturn
    \/ ScrollByPixels
    \/ CflsNoCards
    \/ CflsClick
    \/ CflsWait
    \/ HmMature
    \/ HmWait
    \/ HmClick
    \/ IsPageLoadedSuccessfully
    \/ Poll

SpecWorkflow == Init /\ [][NextWorkflow]_vars /\ WF_vars(NextWorkflow)

(***************************************************************************)
(* Specification SpecPage: a dismissal call and the same call again, on a  *)
(* page that shows a known set of overlays                                 *)
(***************************************************************************)
InitPage ==
    /\ pc = "idle"
    /\ op = "none"
    /\ sel = 0
    /\ cards = <<>>
    /\ ret = <<>>
    /\ outcome = "none"
    /\ log = <<>>
    /\ url = NoHrefElement
    /\ href = <<>>
    /\ verdict = "none"
    /\ page \in {KnownPage(shown) : shown \in SUBSET Overlays}
    /\ calls = 1
    /\ polls = 0
    /\ Unused

NextPage ==
    \/ CallHandleCookieConsent
    \/ HccProbe
    \/ BaseClickWait
    \/ BaseClickNative
    \/ CallHandleModals
    \/ HmMature
    \/ CallCloseModalIfPresent
    \/ HmWait
    \/ HmClick
    \/ CallAgain
    \/ Poll

SpecPage == InitPage /\ [][NextPage]_vars

(***************************************************************************)
(* What the claims say about an anchor, read off its URL (not its text)    *)
(***************************************************************************)
ExclusionList == {exclude_patterns[i] : i \in 1..Len(exclude_patterns)}

\* rule 1: the href is on the site's own host
OnSite(u) == u.host = "site"

\* rules 2-4 on the URL's path: a first segment longer than one character,
\* not in the exclusion list, and no further segment
PathQualifies(u) ==
    /\ u.segs # <<>>
    /\ Len(u.segs[1]) > 1
    /\ u.segs[1] \notin ExclusionList
    /\ Len(u.segs) = 1

AllFourRules(u) == OnSite(u) /\ PathQualifies(u)

Classified == pc = "classified"

\* C1: an href whose first path segment is in the exclusion list is never
\* accepted by _is_channel_link, whatever follows the segment (sub-path,
\* trailing slash, query string, fragment).
C1_ExcludedFirstSegmentRejected ==
    (Classified /\ url.segs # <<>> /\ url.segs[1] \in ExclusionList)
        => verdict = "False"

\* C5: _is_channel_link accepts an anchor if and only if all four rules hold
\* for its URL.
C5_ClassificationExact ==
    Classified => (verdict = "True" <=> AllFourRules(url))

\* C6: an href whose path has two or more segments is rejected.
C6_DeepPathRejected ==
    (Classified /\ Len(url.segs) >= 2) => verdict = "False"

\* C7: an href whose host is not the site's own host is rejected.
C7_OffSiteRejected ==
    (Classified /\ ~OnSite(url)) => verdict = "False"

(***************************************************************************)
(* Claims about the calls of specification Spec                            *)
(***************************************************************************)
InGetCards == op \in {"get_live_streamer_cards", "click_first_live_streamer"}

\* get_live_streamer_cards has returned (to the test or to
\* click_first_live_streamer)
CardsReturned ==
    /\ InGetCards
    /\ pc \in {"done", "cfls_cards", "cfls_wait"}
    /\ (op = "get_live_streamer_cards" => outcome = "returned")

\* the positions of the log where a selector's elements were asked for
Queries == {i \in 1..Len(log) : log[i].act = "find_elements"}

\* the script clicks issued on a card
CardClicks ==
    {i \in 1..Len(log) : log[i].act = "script_click" /\ log[i].loc = "cards[0]"}

\* some selector yielded an element that _is_channel_link accepts
SomeQualified == \E i \in Queries : log[i].qual

\* C2: when no anchor matched by any selector passes _is_channel_link,
\* get_live_streamer_cards returns the empty list.
C2_NothingQualifiesGivesEmpty ==
    (CardsReturned /\ ~SomeQualified) => ret = <<>>

\* C3: click_first_live_streamer only clicks an element that passes
\* classification, and when no candidate qualifies it raises without a click.
C3_OnlyQualifyingClicked ==
    op = "click_first_live_streamer" =>
        /\ \A i \in CardClicks : is_channel_link(Href(log[i].el))
        /\ (Done /\ ~SomeQualified) => (outcome = "raised" /\ CardClicks = {})

\* a probe of a chain entry that yielded: a non-empty find_elements, a
\* successful is_element_present or is_element_visible
Yielded(e) ==
    e.ok /\ e.act \in {"find_elements", "is_element_present", "wait_visible"}

\* what the events that query no selector are about
NoSelector == {"cards[0]", "/search", "not /search", ""}

InChainCall ==
    InGetCards \/ op \in {"click_search_icon", "enter_search_query"}

\* C4 as claimed: once a selector of a chain has yielded at least one
\* element, no later selector of the chain is queried.
C4_FirstYieldEndsChain ==
    InChainCall =>
        \A i \in 1..Len(log) : \A j \in (i + 1)..Len(log) :
            Yielded(log[i]) => log[j].loc \in {log[i].loc} \cup NoSelector

\* the entry that decides a chain: in get_live_streamer_cards a selector
\* whose elements include one that _is_channel_link accepts, in the
\* two-entry chains a selector found present or visible
Decisive(e) ==
    IF e.act = "find_elements" THEN e.qual ELSE Yielded(e)

\* C4 as amended: once a selector has yielded a qualifying element (a
\* present or visible one in the two-entry chains), no other selector is
\* queried any more, and get_live_streamer_cards returns exactly the
\* qualifying elements of that selector.
C4_DecisiveEntryEndsChain ==
    InChainCall =>
        \A i \in 1..Len(log) :
            Decisive(log[i]) =>
                /\ \A j \in (i + 1)..Len(log) :
                       log[j].loc \in {log[i].loc} \cup NoSelector
                /\ log[i].act = "find_elements" =>
                       /\ i = Len(log) \/ log[i + 1].act # "find_elements"
                       /\ pc # "glsc_loop"
                       /\ ret # <<>>
                       /\ \A k \in 1..Len(ret) : is_channel_link(Href(ret[k]))
                       /\ Len(ret) = Cardinality({k \in 1..Len(cards) :
                                         is_channel_link(Href(cards[k]))})

\* witness of C4: an earlier selector yielded elements, none qualifying, and
\* a later selector gave the result
C4_Witness ==
    /\ op = "get_live_streamer_cards"
    /\ Done
    /\ \E i \in Queries : \E j \in Queries :
          i < j /\ log[i].ok /\ ~log[i].qual /\ log[j].qual
    /\ ret # <<>>

RECURSIVE IsSubsequence(_, _)
\* a is b with some elements left out, the order kept
IsSubsequence(a, b) ==
    IF a = <<>> THEN TRUE
    ELSE IF b = <<>> THEN FALSE
    ELSE IF Head(a) = Head(b) THEN IsSubsequence(Tail(a), Tail(b))
    ELSE IsSubsequence(a, Tail(b))

\* e is the earliest element of cs that _is_channel_link accepts (any
\* element when cs holds none)
EarliestQualifying(cs, e) ==
    LET q == {k \in 1..Len(cs) : is_channel_link(Href(cs[k]))}
    IN  q # {} => cs[CHOOSE k \in q : \A m \in q : k <= m] = e

NativePathFailed ==
    \E i \in 1..Len(log) :
        log[i].act \in {"wait_clickable", "native_click"} /\ ~log[i].ok

ScriptClicks == {i \in 1..Len(log) : log[i].act = "script_click"}

\* C9: when the native click is intercepted or the target does not become
\* clickable, click issues exactly one script click and returns normally.
C9_ClickFallsBackToScript ==
    (op = "click" /\ Done /\ NativePathFailed) =>
        (outcome = "returned" /\ Cardinality(ScriptClicks) = 1)

\* the dismiss clicks that went through
Dismissals == {i \in 1..Len(log) : log[i].act = "native_click" /\ log[i].ok}

InDismissal == op \in {"handle_cookie_consent", "handle_modals"}

\* C10 as claimed: after a dismiss click went through, the call waits for
\* and clicks nothing more; at most one dismiss click per call.
C10_OneDismissalPerCall ==
    InDismissal =>
        /\ \A i \in Dismissals : i = Len(log)
        /\ Cardinality(Dismissals) <= 1

CloseLoopEntries ==
    {i \in 1..Len(log) :
        op = "handle_modals" /\ log[i].loc # "MATURE_CONTENT_BUTTON"}

\* C10 as amended: handle_cookie_consent stops at its first dismiss click
\* that went through.  handle_modals clicks the mature-content button at
\* most once and then runs the close-button chain, which stops at its first
\* click that went through: at most two dismiss clicks per call, at most
\* one of them on a close button, and nothing follows that one.
C10_DismissalStopsItsChain ==
    /\ op = "handle_cookie_consent" =>
          /\ \A i \in Dismissals : i = Len(log) /\ Done
          /\ Cardinality(Dismissals) <= 1
    /\ op = "handle_modals" =>
          /\ \A i \in Dismissals \cap CloseLoopEntries : i = Len(log) /\ Done
          /\ Cardinality(Dismissals \cap CloseLoopEntries) <= 1
          /\ Cardinality(Dismissals \ CloseLoopEntries) <= 1
          /\ \A i \in Dismissals \ CloseLoopEntries :
                 \A j \in 1..Len(log) :
                     log[j].loc = "MATURE_CONTENT_BUTTON" => j <= i

\* witness of C10: handle_modals clicked the mature-content button and then
\* a close button, after a close selector that did not match
C10_Witness ==
    /\ op = "handle_modals"
    /\ Done
    /\ Cardinality(Dismissals) = 2
    /\ \E i \in CloseLoopEntries : log[i].act = "wait_clickable" /\ ~log[i].ok


\* C11: handle_modals and handle_cookie_consent always return normally: no
\* exception of a wait or of a click reaches their caller.
C11_DismissalNeverRaises ==
    (InDismissal /\ Done) => outcome = "returned"

\* witness of C11: a dismissal call ended after a dismiss click that failed
C11_Witness ==
    /\ InDismissal
    /\ Done
    /\ \E i \in 1..Len(log) : log[i].act = "native_click" /\ ~log[i].ok


(***************************************************************************)
(* C12                                                                     *)
(***************************************************************************)
\* the position in log at which the second call began (0: there was none)
SecondCallAt ==
    IF \E i \in 1..Len(log) : log[i].act = "call"
    THEN CHOOSE i \in 1..Len(log) : log[i].act = "call"
    ELSE 0

\* the first call found an overlay and dismissed it
FirstCallDismissed ==
    /\ calls = 2
    /\ \E i \in Dismissals : i < SecondCallAt

\* the clicks the second call attempted
SecondCallClicks ==
    {i \in 1..Len(log) : i > SecondCallAt /\ log[i].act = "native_click"}

\* the second call ended and reported that something was dismissed
SecondCallReportsDismissal ==
    /\ op = "close_modal_if_present"
    /\ Done
    /\ outcome = "returned"
    /\ verdict # "False"

PatternsOf(call) ==
    CASE call = "handle_cookie_consent" ->
             {cookie_selectors[i] : i \in 1..Len(cookie_selectors)}
      [] call = "handle_modals" ->
             {"MATURE_CONTENT_BUTTON"} \cup
             {close_selectors[i] : i \in 1..Len(close_selectors)}
      [] call = "close_modal_if_present" -> {close_selectors[sel]}
      [] OTHER -> {}

\* no overlay that the call looks for is shown
NothingLeftToDismiss ==
    \A loc \in PatternsOf(op) : Matches(loc) \cap page.shown = {}

ReadyStateTimedOut ==
    \E i \in 1..Len(log) : log[i].act = "ready_state" /\ ~log[i].ok

\* C13: when the ready state does not become complete within the timeout,
\* open() does nothing more and ends with an error; it returns normally only
\* after the ready state complete was observed.
C13_OpenFailsOnReadyStateTimeout ==
    (op = "open" /\ ReadyStateTimedOut) =>
        /\ log[Len(log)].act = "ready_state"
        /\ Done
        /\ outcome = "raised"


(***************************************************************************)
(* C14, C15                                                                *)
(***************************************************************************)
\* the URL waits of the call whose last poll saw a URL with "/search" in it
SawSearchUrl ==
    {i \in 1..Len(log) :
        log[i].act = "url_wait" /\ Contains(Href(log[i].el), <<"/", "search">>)}

\* the URL waits of the call whose last poll saw a URL without "/search"
SawOtherUrl ==
    {i \in 1..Len(log) :
        log[i].act = "url_wait" /\ ~Contains(Href(log[i].el), <<"/", "search">>)}

\* C14: click_first_live_streamer returns normally only after its wait saw
\* a current URL without "/search"; when the URL still has "/search" at the
\* timeout of the wait, the call ends with an error.
C14_ReturnsOnlyAfterLeavingSearch ==
    op = "click_first_live_streamer" =>
        /\ (Done /\ outcome = "returned") => Len(log) \in SawOtherUrl
        /\ SawSearchUrl # {} => (Done /\ outcome = "raised")

\* witness of C14: the click was issued and the wait timed out on the
\* search results URL
C14_Witness ==
    /\ op = "click_first_live_streamer"
    /\ Done
    /\ ScriptClicks # {}
    /\ SawSearchUrl # {}

\* the keystrokes of the call that went through
KeysSent == {i \in 1..Len(log) : log[i].act = "send_keys" /\ log[i].ok}

\* C15: enter_search_query returns normally only if, after the keystrokes
\* were sent, its wait saw a current URL with "/search"; when the wait times
\* out on another URL, the call ends with an error.
C15_ReturnsOnlyAfterReachingSearch ==
    op = "enter_search_query" =>
        /\ (Done /\ outcome = "returned") =>
               \E i \in KeysSent : \E j \in SawSearchUrl : i < j
        /\ SawOtherUrl # {} => (Done /\ outcome = "raised")

\* witness of C15: the keystrokes were sent and the wait timed out on a URL
\* without "/search"
C15_Witness ==
    /\ op = "enter_search_query"
    /\ Done
    /\ KeysSent # {}
    /\ SawOtherUrl # {}


(***************************************************************************)
(* C16                                                                     *)
(***************************************************************************)
\* the waits of the call that ended with a TimeoutException in find_element,
\* in BasePage.click or in a URL wait
TimeoutsToSignal ==
    {i \in 1..Len(log) :
        /\ ~log[i].ok
        /\ \/ log[i].act \in {"find_element", "url_wait"}
           \/ log[i].act = "wait_clickable" /\ op = "click"}

\* a timeout of find_element, click or a URL wait ends the call with the
\* exception
TimeoutSignalled ==
    \A i \in TimeoutsToSignal :
        i = Len(log) /\ Done /\ outcome = "raised"

\* C16: a wait whose predicate stays false polls no longer than its timeout
\* allows and then ends; find_element, click and the URL waits pass the
\* timeout on to their caller.  No wait goes on forever.
C16_WaitsEndAtTimeout ==
    /\ [](polls <= MaxPolls)
    /\ []TimeoutSignalled
    /\ []<>(~Waiting)

\* witness of C16: BasePage.click ended after its wait timed out
C16_Witness ==
    /\ op = "click"
    /\ Done
    /\ TimeoutsToSignal # {}


(***************************************************************************)
(* C20                                                                     *)
(***************************************************************************)
\* C20: scroll_down and scroll_by_pixels return normally on every page and
\* for every pixel delta; no exception reaches the caller.
C20_ScrollNeverFails ==
    (op = "scroll_down" /\ Done) => outcome = "returned"


(***************************************************************************)
(* C18, C19                                                                *)
(***************************************************************************)
\* a wait of the call raised an exception that is no TimeoutException
Faults == {i \in 1..Len(log) : log[i].act = "fault"}

\* C18: an exception of a wait that is no timeout reaches the caller of
\* get_live_streamer_cards (find_elements) and of wait_for_page_load (open,
\* wait_for_page_to_load): the call does not return normally.
C18_FaultsPropagate ==
    (/\ op \in {"get_live_streamer_cards", "open", "wait_for_page_to_load"}
     /\ \E i \in Faults : log[i].loc \in
            {selectors_to_try[k] : k \in 1..Len(selectors_to_try)}
                \cup {"complete"})
        => (Done /\ outcome = "raised")

\* every selector of the chain was queried and none yielded an element
ChainExhausted ==
    /\ Len(log) = Len(selectors_to_try)
    /\ \A i \in 1..Len(log) : log[i].act = "find_elements" /\ ~log[i].ok

\* C19: when no selector of the chain yields an element within its wait,
\* get_live_streamer_cards returns the empty list and raises nothing.
C19_ExhaustionGivesEmpty ==
    (op = "get_live_streamer_cards" /\ ChainExhausted) =>
        /\ Done
        /\ outcome = "returned"
        /\ ret = <<>>

\* witness of C19: the five waits of get_live_streamer_cards timed out
C19_Witness ==
    /\ op = "get_live_streamer_cards"
    /\ ChainExhausted
    /\ Done


(***************************************************************************)
(* C17                                                                     *)
(***************************************************************************)
Finished == pc = "finished"

\* C17: whatever the page answers, the run of the test ends after finitely
\* many steps, passed or failed.
C17_WorkflowTerminates == <>Finished

\* witness of C17: the test made every call and passed
C17_Witness ==
    /\ Finished
    /\ outcome = "passed"
    /\ calls = Len(Workflow)


(***************************************************************************)
(* conftest.py: the driver fixture                                         *)
(***************************************************************************)
Browsers == {"chrome", "firefox", "edge"}

\* what --browser / BROWSER, --headless / HEADLESS and --mobile can be
Requests ==
    [browser : Browsers \cup {"safari"}, headless : BOOLEAN, mobile : BOOLEAN]

\* the calls made on the new driver before it is handed to the test
config_calls ==
    <<"implicitly_wait", "set_page_load_timeout", "set_script_timeout",
      "maximize_window">>

\* if not mobile: driver.maximize_window()
ConfigSkipped(i) == config_calls[i] = "maximize_window" /\ request.mobile

\* the first configuration call from i on that is made (0: none is left)
RECURSIVE NextConfig(_)
NextConfig(i) ==
    IF i > Len(config_calls) THEN 0
    ELSE IF ConfigSkipped(i) THEN NextConfig(i + 1) ELSE i

\* try: driver = webdriver.Chrome / Firefox / Edge (...), or
\* raise ValueError for another browser name
CreateDriver ==
    /\ pc = "fx_try"
    /\ IF request.browser \in Browsers
       THEN \E ok \in BOOLEAN :
              /\ log' = Append(log, Ev("webdriver", request.browser, ok))
              /\ driver' = IF ok THEN "WebDriver" ELSE driver
              /\ IF ok THEN Goto("fx_config", NextConfig(1), "running")
                       ELSE Goto("fx_except", sel, "running")
       ELSE /\ log' = Append(log, Ev("ValueError", request.browser, FALSE))
            /\ driver' = driver
            /\ Goto("fx_except", sel, "running")
    /\ UNCHANGED <<op, cards, ret, url, href, verdict, page, calls, polls,
                   nav, got, request, trace, apivars, parvars, scrollvars>>

\* driver.implicitly_wait(1), ..., driver.maximize_window(): each may raise
ConfigureDriver ==
    /\ pc = "fx_config"
    /\ sel # 0
    /\ \E ok \in BOOLEAN :
          /\ log' = Append(log, Ev(config_calls[sel], "driver", ok))
          /\ IF ok
             THEN IF NextConfig(sel + 1) = 0
                  THEN Goto("fx_yield", 0, "running")
                  ELSE Goto("fx_config", NextConfig(sel + 1), "running")
             ELSE Goto("fx_except", sel, "running")
    /\ UNCHANGED <<op, cards, ret, url, href, verdict, page, calls, polls,
                   session, trace, apivars, parvars, scrollvars>>

\* how a test that was given the driver can end
TestResults == {"passed", "failed", "error"}

\* yield driver: the test runs, and whatever its result pytest resumes the
\* generator after the yield
YieldDriver ==
    /\ pc = "fx_yield"
    /\ \E r \in TestResults :
          /\ log' = Append(log, Ev("test", r, r = "passed"))
          /\ Goto("fx_finally", sel, r)
    /\ UNCHANGED <<op, cards, ret, url, href, verdict, page, calls, polls,
                   session, trace, apivars, parvars, scrollvars>>

\* except Exception as e: logger.error(...); raise
ExceptReraise ==
    /\ pc = "fx_except"
    /\ Goto("fx_finally", sel, "setup_error")
    /\ UNCHANGED <<op, cards, ret, log, url, href, verdict, page, calls,
                   polls, session, trace, apivars, parvars, scrollvars>>

\* mutant of DriverIsSet: the finally block never finds a driver
DriverNeverSet(d) == FALSE

\* if driver:
DriverIsSet(d) == d # "None"

\* finally: if driver: driver.quit()  (quit may raise as well)
FinallyQuit ==
    /\ pc = "fx_finally"
    /\ IF DriverIsSet(driver)
       THEN \E ok \in BOOLEAN : log' = Append(log, Ev("quit", "driver", ok))
       ELSE log' = log
    /\ Goto("fx_done", sel, outcome)
    /\ UNCHANGED <<op, cards, ret, url, href, verdict, page, calls, polls,
                   session, trace, apivars, parvars, scrollvars>>

(***************************************************************************)
(* Specification SpecFixture: one run of the driver fixture around a test, *)
(* for every choice of options; the thread of the test run is kept running *)
(***************************************************************************)
InitFixture ==
    /\ pc = "fx_try"
    /\ op = "driver"
    /\ sel = 0
    /\ cards = <<>>
    /\ ret = <<>>
    /\ outcome = "none"
    /\ log = <<>>
    /\ url = NoHrefElement
    /\ href = <<>>
    /\ verdict = "none"
    /\ page = AnyPage
    /\ calls = 1
    /\ polls = 0
    /\ driver = "None"
    /\ nav = 0
    /\ got = 0
    /\ trace = <<>>
    /\ created_ids = <<>>
    /\ store = {}
    /\ files = <<>>
    /\ clock = 0
    /\ inst = <<>>
    /\ dom = AnyDom
    /\ initial_cards = 0
    /\ request \in Requests

NextFixture ==
    \/ CreateDriver
    \/ ConfigureDriver
    \/ YieldDriver
    \/ ExceptReraise
    \/ FinallyQuit

SpecFixture == InitFixture /\ [][NextFixture]_vars /\ WF_vars(NextFixture)

(***************************************************************************)
(* C21                                                                     *)
(***************************************************************************)
FixtureFinished == pc = "fx_done"

DriverCreated == driver # "None"

\* how often driver.quit() was called
QuitCalls == Cardinality({i \in 1..Len(log) : log[i].act = "quit"})

\* a call made on the new driver before the yield raised
ConfigurationRaised ==
    \E i \in 1..Len(log) :
        /\ log[i].act \in {config_calls[j] : j \in 1..Len(config_calls)}
        /\ ~log[i].ok

\* C21: in every run of the driver fixture in which a driver was created,
\* driver.quit() is called exactly once before the fixture finishes, whether
\* the test passed, failed, raised, or the configuration of the new driver
\* raised; and the fixture does finish.
C21_DriverQuitExactlyOnce ==
    /\ [](QuitCalls <= 1)
    /\ []((FixtureFinished /\ DriverCreated) => QuitCalls = 1)
    /\ (DriverCreated ~> FixtureFinished)

\* the configuration of a created driver raised, and the fixture finished
\* with one quit
C21_Witness ==
    /\ FixtureFinished
    /\ DriverCreated
    /\ ConfigurationRaised
    /\ outcome = "setup_error"
    /\ QuitCalls = 1


(***************************************************************************)
(* C22                                                                     *)
(***************************************************************************)
\* the driver calls that are issued on an element handle the caller holds
IssuedOnHandle(e) ==
    \/ e.act \in {"native_click", "send_keys", "script_click", "get_attribute"}
    \/ e.act = "fault" /\ e.loc = "cards[0]"

\* the step issues a driver call on a held element handle
UsesHandle ==
    /\ Len(log') = Len(log) + 1
    /\ IssuedOnHandle(log'[Len(log')])

\* C22: in every run of the search workflow, no click, script execution or
\* attribute read is issued on an element handle that was obtained before
\* the most recent navigation (page open, search submit, result click).
C22_NoStaleElementUse == [][UsesHandle => got = nav]_vars

\* the test read cards[0] of the results page: two navigations were made
\* (open, search submit) and the handles were found after the second
C22_Witness ==
    /\ op = "read_first_card"
    /\ Done
    /\ outcome = "returned"
    /\ nav = 2
    /\ got = 2


(***************************************************************************)
(* C23                                                                     *)
(***************************************************************************)
\* what a step of the sequence does with the driver, modal dismissal aside
SequenceActs ==
    {"get", "ready_state", "url_wait", "native_click", "send_keys",
     "script_click", "fault"}

\* a step of the sequence failed in the call being made: a navigation, a
\* click, the typing, the wait for a URL or the wait for the page load
\* raised or timed out
SequenceStepFailed ==
    \E i \in 1..Len(log) :
        /\ log[i].act \in SequenceActs
        /\ ~log[i].ok
        /\ Matches(log[i].loc) = {}

\* C23: once a step of the sequence has failed, the test makes no later
\* call, and it ends with the exception of the failing step (not with a
\* failed assertion on what the step returned).
C23_FailedStepAborts ==
    [][SequenceStepFailed =>
          /\ calls' = calls
          /\ pc' = "finished" => outcome = "raised"]_vars


(***************************************************************************)
(* C24                                                                     *)
(***************************************************************************)
\* the milestones of the run so far, the call in progress included
Run == trace \o Milestones(op, log)

\* every occurrence of milestone b in the run r has an occurrence of a
\* before it
Before(r, a, b) ==
    \A j \in 1..Len(r) : r[j] = b => \E i \in 1..(j - 1) : r[i] = a

\* C24: modal dismissal on the origin page is attempted after the origin
\* navigation and before the search affordance is clicked; the result click
\* happens only after the URL matched the results pattern; modal dismissal
\* on the destination is attempted only after the wait for the destination's
\* load, which follows the confirmed navigation away from the results page.
C24_StepOrder ==
    LET r == Run
    IN  /\ Before(r, "origin_navigation", "origin_dismissal")
        /\ Before(r, "origin_dismissal", "search_click")
        /\ Before(r, "results_url", "result_click")
        /\ Before(r, "left_results", "destination_load_wait")
        /\ Before(r, "destination_load_wait", "destination_dismissal")

\* the test passed and its run shows the eight milestones, once each
C24_Witness ==
    /\ Finished
    /\ outcome = "passed"
    /\ Run = <<"origin_navigation", "origin_dismissal", "search_click",
               "results_url", "result_click", "left_results",
               "destination_load_wait", "destination_dismissal">>


(***************************************************************************)
(* C28                                                                     *)
(***************************************************************************)
\* the call read driver.current_url
UrlWasRead ==
    \E i \in 1..Len(log) : log[i].act = "current_url" /\ log[i].ok

\* C28: is_page_loaded_successfully returns True only when the current URL
\* was read and has the destination shape; when the URL cannot be read or
\* has another shape, it does not report success.
C28_VerificationSound ==
    (op = "is_page_loaded_successfully" /\ Done /\ verdict = "True")
        => (UrlWasRead /\ url_check(url))


(***************************************************************************)
(* Specification SpecScroll: scroll_down on a document whose elements are  *)
(* known                                                                   *)
(***************************************************************************)
\* most elements of a document
MaxBoxes == 2

\* a viewport-high element, with content as high, a little higher (by less
\* than the margin) or much higher
Heights == {600, 650, 800}

Boxes ==
    {Box(m, o, h, 600) :
        m \in {"div", "main", "body"}, o \in {"visible", "auto"},
        h \in Heights}

RECURSIVE BoxLists(_)
\* the documents of up to n elements
BoxLists(n) ==
    IF n = 0 THEN {<<>>}
    ELSE BoxLists(n - 1) \cup
         {Append(l, b) : l \in {x \in BoxLists(n - 1) : Len(x) = n - 1},
                         b \in Boxes}

InitScroll ==
    /\ pc = "idle"
    /\ op = "none"
    /\ sel = 0
    /\ cards = <<>>
    /\ ret = <<>>
    /\ outcome = "none"
    /\ log = <<>>
    /\ url = NoHrefElement
    /\ href = <<>>
    /\ verdict = "none"
    /\ page = AnyPage
    /\ calls = 1
    /\ polls = 0
    /\ driver = "None"
    /\ nav = 0
    /\ got = 0
    /\ trace = <<>>
    /\ created_ids = <<>>
    /\ store = {}
    /\ files = <<>>
    /\ clock = 0
    /\ inst = <<>>
    /\ request = DefaultRequest
    /\ initial_cards = 0
    /\ \E boxes \in BoxLists(MaxBoxes) :
          dom = [known |-> TRUE, boxes |-> boxes, anchors |-> <<>>,
                 window |-> 0]

NextScroll ==
    \/ CallScrollDown
    \/ ScrollByPixels

SpecScroll == InitScroll /\ [][NextScroll]_vars

(***************************************************************************)
(* C27                                                                     *)
(***************************************************************************)
\* the step is a run of the scroll script that returned
ScrollRan ==
    /\ pc = "scroll"
    /\ Len(log') = Len(log) + 1
    /\ log'[Len(log')].act = "execute_script"
    /\ log'[Len(log')].ok

\* the step added exactly the pixel delta to target t (0: the window) and
\* nothing to any other
DeltaAppliedOnlyTo(t) ==
    /\ dom'.window = dom.window + (IF t = 0 THEN Pixels ELSE 0)
    /\ \A j \in 1..Len(dom.boxes) :
          dom'.boxes[j].added =
              dom.boxes[j].added + (IF t = j THEN Pixels ELSE 0)

\* overflow-y scroll or auto and a scroll height above the client height
Overflowing(b) ==
    b.overflowY \in {"scroll", "auto"} /\ b.scrollHeight > b.clientHeight

\* position in the probe order: the elements of the selector list first, in
\* the order of the list, then the document's elements in document order
ProbeRank(boxes, j) ==
    LET listed == {i \in 1..Len(scroll_selectors) :
                      scroll_selectors[i] = boxes[j].matches}
    IN  IF listed = {} THEN Len(scroll_selectors) * (Len(boxes) + 1) + j
        ELSE (CHOOSE i \in listed : TRUE) * (Len(boxes) + 1) + j

\* the first in probe order of the elements (indexes) hits (0: none)
FirstInProbeOrder(boxes, hits) ==
    IF hits = {} THEN 0
    ELSE CHOOSE j \in hits :
             \A k \in hits : ProbeRank(boxes, j) <= ProbeRank(boxes, k)

\* the target C27 names: the first element in probe order that overflows, the
\* window only when no element overflows
ClaimedTarget(boxes) ==
    FirstInProbeOrder(boxes, {j \in 1..Len(boxes) : Overflowing(boxes[j])})

CountsAsContainer(boxes, j) ==
    /\ Overflowing(boxes[j])
    /\ \/ \E i \in 1..Len(scroll_selectors) :
             scroll_selectors[i] = boxes[j].matches
       \/ boxes[j].scrollHeight - boxes[j].clientHeight > ScrollMargin

AmendedTarget(boxes) ==
    FirstInProbeOrder(boxes,
                      {j \in 1..Len(boxes) : CountsAsContainer(boxes, j)})

MaxAnchors == 2

\* channel links and a navigation link, styled as cards (tw-link) or not
DomAnchors ==
    {DomAnchor(Anchor("site", segs, "none"), twlink, FALSE) :
        segs \in {<<"ninja">>, <<"shroud">>, <<"search", "channels">>},
        twlink \in BOOLEAN}

RECURSIVE AnchorLists(_)
AnchorLists(n) ==
    IF n = 0 THEN {<<>>}
    ELSE AnchorLists(n - 1) \cup
         {Append(l, a) : l \in {x \in AnchorLists(n - 1) : Len(x) = n - 1},
                         a \in DomAnchors}

InitScrollTest ==
    /\ pc = "idle"
    /\ op = "none"
    /\ sel = 0
    /\ cards = <<>>
    /\ ret = <<>>
    /\ outcome = "none"
    /\ log = <<>>
    /\ url = NoHrefElement
    /\ href = <<>>
    /\ verdict = "none"
    /\ page = AnyPage
    /\ calls = 1
    /\ polls = 0
    /\ driver = "None"
    /\ nav = 0
    /\ got = 0
    /\ trace = <<>>
    /\ created_ids = <<>>
    /\ store = {}
    /\ files = <<>>
    /\ clock = 0
    /\ inst = <<>>
    /\ request = DefaultRequest
    /\ initial_cards = 0
    /\ \E anchors \in AnchorLists(MaxAnchors) :
          dom = [known |-> TRUE, boxes |-> <<>>, anchors |-> anchors,
                 window |-> 0]

\* initial_cards = len(home_page.get_streamer_cards()), then
\* home_page.scroll_down(times=2)
SltScrollDown ==
    /\ Done
    /\ calls = 1
    /\ outcome = "returned"
    /\ initial_cards' = Len(ret)
    /\ calls' = 2
    /\ op' = "scroll_down"
    /\ Goto("scroll", 2, "running")
    /\ log' = <<>>
    /\ UNCHANGED <<cards, ret, url, href, verdict, page, polls, session, trace,
                   apivars, parvars, dom>>

\* the page reacts to the scroll: it appends anchors to the document, and
\* removes or changes none
LoadMore ==
    /\ op = "scroll_down"
    /\ Done
    /\ dom.window > 0
    /\ Len(dom.anchors) <= MaxAnchors
    /\ \E more \in AnchorLists(MaxAnchors) \ {<<>>} :
          dom' = [dom EXCEPT !.anchors = @ \o more]
    /\ UNCHANGED <<pc, op, sel, cards, ret, outcome, log, url, href, verdict,
                   page, calls, polls, session, trace, apivars, parvars,
                   initial_cards>>

\* final_cards = len(home_page.get_streamer_cards())
SltFinalCards ==
    /\ Done
    /\ calls = 2
    /\ outcome = "returned"
    /\ calls' = 3
    /\ op' = "get_live_streamer_cards"
    /\ Goto("glsc_loop", 1, "running")
    /\ cards' = <<>>
    /\ ret' = <<>>
    /\ log' = <<>>
    /\ UNCHANGED <<url, href, verdict, page, polls, session, trace, apivars,
                   parvars, scrollvars>>

\* assert final_cards >= initial_cards; an exception of scroll_down ends the
\* test as well
SltFinish ==
    /\ Done
    /\ calls = 3 \/ outcome = "raised"
    /\ pc' = "finished"
    /\ outcome' = IF outcome = "returned" /\ Len(ret) >= initial_cards
                  THEN "passed" ELSE "failed"
    /\ UNCHANGED <<op, sel, cards, ret, log, url, href, verdict, page, calls,
                   polls, session, trace, apivars, parvars, scrollvars>>

NextScrollTest ==
    \/ CallGetLiveStreamerCards
    \/ GlscIteration
    \/ Poll
    \/ SltScrollDown
    \/ ScrollByPixels
    \/ LoadMore
    \/ SltFinalCards
    \/ SltFinish

SpecScrollTest == InitScrollTest /\ [][NextScrollTest]_vars

(***************************************************************************)
(* C25                                                                     *)
(***************************************************************************)
\* C25: when scrolling only adds anchors to the results page, the number of
\* cards get_streamer_cards returns after scroll_down is greater than or
\* equal to the number it returned before.
C25_ScrollKeepsResults ==
    (op = "get_live_streamer_cards" /\ calls = 3 /\ Done)
        => Len(ret) >= initial_cards


(***************************************************************************)
(* ObjectsClient (create_object, delete_object) and the objects_client     *)
(* fixture that cleans up after the test                                   *)
(***************************************************************************)
\* most requests a test makes before the fixture is torn down
MaxRequests == 3

\* the ids the API gives to new objects: calls is the next one
ObjectIds == 1..MaxRequests

\* created_ids after self.created_ids.remove(str(object_id))
RECURSIVE Remove(_, _)
Remove(ids, object_id) ==
    IF ids = <<>> THEN <<>>
    ELSE IF Head(ids) = object_id THEN Tail(ids)
         ELSE <<Head(ids)>> \o Remove(Tail(ids), object_id)

Tracked(object_id) == \E i \in 1..Len(created_ids) : created_ids[i] = object_id

\* how the API can answer POST /objects: created and the id returned,
\* created but no id in the body, an error status, or no answer (exception)
PostAnswers == {"200", "200 without id", "500", "exception"}

\* create_object: the id of a status-200 response is appended to created_ids
create_object ==
    /\ pc = "api_test"
    /\ Len(log) < MaxRequests
    /\ \E r \in PostAnswers :
          /\ log' = Append(log, Ev(IF r = "exception" THEN "fault" ELSE "POST",
                                   IF r = "200" THEN calls ELSE 0,
                                   r \in {"200", "200 without id"}))
          /\ store' = IF r \in {"200", "200 without id"}
                      THEN store \cup {calls} ELSE store
          /\ created_ids' = IF r = "200" THEN Append(created_ids, calls)
                                         ELSE created_ids
    /\ calls' = calls + 1
    /\ UNCHANGED <<pc, op, sel, cards, ret, outcome, url, href, verdict, page,
                   polls, session, trace, parvars, scrollvars>>

\* how the API can answer DELETE /objects/{id}
DeleteAnswers == {"200", "404", "500", "exception"}

\* "if str(object_id) in self.created_ids: remove" follows every response
RemovedAfter(r) == r # "exception"

\* delete_object(object_id) with answer r: the request, then the removal
\* from created_ids; an exception of the request leaves the method before it
delete_object(object_id, r) ==
    /\ r = "200" => object_id \in store
    /\ log' = Append(log, Ev(IF r = "exception" THEN "fault" ELSE "DELETE",
                             object_id, r = "200"))
    /\ store' = IF r = "200" THEN store \ {object_id} ELSE store
    /\ created_ids' = IF RemovedAfter(r) THEN Remove(created_ids, object_id)
                                         ELSE created_ids

\* the test calls delete_object
DeleteObject ==
    /\ pc = "api_test"
    /\ Len(log) < MaxRequests
    /\ \E object_id \in ObjectIds, r \in DeleteAnswers :
          delete_object(object_id, r)
    /\ UNCHANGED <<pc, op, sel, cards, ret, outcome, url, href, verdict, page,
                   calls, polls, session, trace, parvars, scrollvars>>

\* the test ended: the fixture resumes after "yield client" and begins
\* "for object_id in client.created_ids" (sel: the iterator's index)
StartTeardown ==
    /\ pc = "api_test"
    /\ pc' = "teardown"
    /\ sel' = 0
    /\ log' = Append(log, Event("teardown", 0, TRUE, FALSE, created_ids))
    /\ UNCHANGED <<op, cards, ret, outcome, url, href, verdict, page, calls,
                   polls, session, trace, apivars, parvars, scrollvars>>

\* the list iterator's index after an iteration: the next position of the
\* list itself, whatever the body removed from the list
NextIndex(i) == i + 1

\* one iteration: object_id = created_ids[sel], then
\* "try: client.delete_object(object_id) except Exception: warning"
TeardownIteration ==
    /\ pc = "teardown"
    /\ sel < Len(created_ids)
    /\ \E r \in DeleteAnswers : delete_object(created_ids[sel + 1], r)
    /\ sel' = NextIndex(sel)
    /\ UNCHANGED <<pc, op, cards, ret, outcome, url, href, verdict, page,
                   calls, polls, session, trace, parvars, scrollvars>>

\* the iterator is exhausted: the fixture is finished
TeardownEnd ==
    /\ pc = "teardown"
    /\ sel >= Len(created_ids)
    /\ pc' = "api_done"
    /\ UNCHANGED <<op, sel, cards, ret, outcome, log, url, href, verdict, page,
                   calls, polls, session, trace, apivars, parvars, scrollvars>>

(***************************************************************************)
(* Specification SpecApi: a test's create_object and delete_object calls   *)
(* on one client, then the fixture's teardown                              *)
(***************************************************************************)
InitApi ==
    /\ pc = "api_test"
    /\ op = "objects_client"
    /\ sel = 0
    /\ cards = <<>>
    /\ ret = <<>>
    /\ outcome = "none"
    /\ log = <<>>
    /\ url = NoHrefElement
    /\ href = <<>>
    /\ verdict = "none"
    /\ page = AnyPage
    /\ calls = 1
    /\ polls = 0
    /\ Unused

NextApi ==
    \/ create_object
    \/ DeleteObject
    \/ StartTeardown
    \/ TeardownIteration
    \/ TeardownEnd

SpecApi == InitApi /\ [][NextApi]_vars

(***************************************************************************)
(* C29, C30                                                                *)
(***************************************************************************)
TeardownFinished == pc = "api_done"

\* where the teardown begins in the log
TeardownStart == CHOOSE i \in 1..Len(log) : log[i].act = "teardown"

\* delete_object was called for object_id during the teardown
DeleteIssued(object_id) ==
    \E i \in (TeardownStart + 1)..Len(log) :
        log[i].act \in {"DELETE", "fault"} /\ log[i].loc = object_id

\* C29: for any number of ids tracked in created_ids when the objects_client
\* fixture is torn down, the teardown issues a delete_object call for every
\* one of those ids, and created_ids is empty when the teardown finishes.
C29_CleanupComplete ==
    TeardownFinished =>
        /\ \A k \in 1..Len(log[TeardownStart].el) :
              DeleteIssued(log[TeardownStart].el[k])
        /\ created_ids = <<>>

\* the ids returned by a status-200 create_object response
Returned ==
    {log[i].loc : i \in {j \in 1..Len(log) :
                            log[j].act = "POST" /\ log[j].ok /\ log[j].loc # 0}}

SuccessfullyDeleted(object_id) ==
    \E i \in 1..Len(log) :
        log[i].act = "DELETE" /\ log[i].ok /\ log[i].loc = object_id

\* C30: after any sequence of create_object and delete_object calls on one
\* client, created_ids contains every id returned by a status-200
\* create_object whose object has not been successfully deleted: an object
\* whose DELETE failed (non-200 response or exception) remains tracked.
C30_UndeletedStayTracked ==
    \A object_id \in Returned :
        ~SuccessfullyDeleted(object_id) => Tracked(object_id)


(***************************************************************************)
(* Two instances of the search test side by side, each with its own driver *)
(* session: their page objects and the screenshots they take               *)
(***************************************************************************)
Instances == {"A", "B"}

\* most seconds that pass while the instances run
MaxSeconds == 1

\* the names the test gives its screenshots, in the order it takes them
Screenshots == <<"after_search_submit", "after_scroll", "streamer_page_final">>

\* self.screenshots_dir: a directory beside the package, the same for every
\* ScreenshotHelper
screenshots_dir == "ui_tests/reports/screenshots"

\* filename = f"{name}_{timestamp}.png", the timestamp to the second
Filename(name, now) == <<name, now>>

\* BasePage.__init__(driver): the page object of instance i, with its own
\* WebDriverWait, ScreenshotHelper and ActionChains on the instance's driver
NewPage(i) ==
    /\ inst[i].step = 0
    /\ inst' = [inst EXCEPT ![i] = [driver |-> i, wait |-> i, step |-> 1]]
    /\ UNCHANGED <<pc, op, sel, cards, ret, outcome, log, url, href, verdict,
                   page, calls, polls, session, trace, apivars, files, clock,
                   scrollvars>>

\* ScreenshotHelper.take_screenshot(name): driver.save_screenshot(filepath)
\* writes the file, or raises (and the test of the instance ends)
TakeShot(i) ==
    /\ inst[i].step \in 1..Len(Screenshots)
    /\ \E ok \in BOOLEAN :
          IF ok
          THEN /\ files' = Append(files,
                       [path |-> <<screenshots_dir,
                                   Filename(Screenshots[inst[i].step],
                                            clock)>>,
                        by |-> inst[i].driver])
               /\ inst' = [inst EXCEPT ![i].step = @ + 1]
          ELSE /\ files' = files
               /\ inst' = [inst EXCEPT ![i].step = Len(Screenshots) + 1]
    /\ UNCHANGED <<pc, op, sel, cards, ret, outcome, log, url, href, verdict,
                   page, calls, polls, session, trace, apivars, clock,
                   scrollvars>>

\* a second passes
Tick ==
    /\ clock < MaxSeconds
    /\ clock' = clock + 1
    /\ UNCHANGED <<pc, op, sel, cards, ret, outcome, log, url, href, verdict,
                   page, calls, polls, session, trace, apivars, files, inst,
                   scrollvars>>

InitParallel ==
    /\ pc = "idle"
    /\ op = "none"
    /\ sel = 0
    /\ cards = <<>>
    /\ ret = <<>>
    /\ outcome = "none"
    /\ log = <<>>
    /\ url = NoHrefElement
    /\ href = <<>>
    /\ verdict = "none"
    /\ page = AnyPage
    /\ calls = 1
    /\ polls = 0
    /\ driver = "None"
    /\ nav = 0
    /\ got = 0
    /\ trace = <<>>
    /\ created_ids = <<>>
    /\ store = {}
    /\ request = DefaultRequest
    /\ dom = AnyDom
    /\ initial_cards = 0
    /\ files = <<>>
    /\ clock = 0
    /\ inst = [i \in Instances |->
                  [driver |-> "none", wait |-> "none", step |-> 0]]

NextParallel ==
    \/ \E i \in Instances : NewPage(i)
    \/ \E i \in Instances : TakeShot(i)
    \/ Tick

SpecParallel == InitParallel /\ [][NextParallel]_vars

(***************************************************************************)
(* C26                                                                     *)
(***************************************************************************)
\* C26: when two workflow instances run side by side, each with its own
\* driver session, no step of one instance reads or writes state the other
\* reads or writes: each page object and wait object belongs to one
\* instance, and no screenshot file is written by both.
C26_InstancesIsolated ==
    /\ \A i \in Instances : inst[i].wait \in {"none", i}
    /\ \A a, b \in 1..Len(files) :
          files[a].path = files[b].path => files[a].by = files[b].by

====
